---- MODULE Spec2Model ----
(***************************************************************************)
(* A model of the KAVACH transaction pipeline:                             *)
(*   ingestion.py   load_transactions_excel / _infer_columns               *)
(*   features.py    engineer_transaction_features                          *)
(*   app.py         _score_transactions_with_model                         *)
(*                                                                         *)
(* A DataFrame is a record [n, cols, err]: n rows, cols a sequence of      *)
(* columns [name, dtype, cells], err set once a call has raised.  A cell   *)
(* is a record [k, n, e, s]: k is "null" (NaN/NaT/None), "num" (the number *)
(* n / 10^e), "str" (the characters s) or "ts" (a Timestamp: day n since   *)
(* 1970-01-01, offset e inside that day).                                  *)
(* Floating point rounding and the infinities are not modelled: numbers    *)
(* are exact, finite decimals.                                             *)
(***************************************************************************)
EXTENDS Integers, Sequences, FiniteSets, TLC

VARIABLES
    model_bundle, \* AppState.model_bundle: None, or the bundle loaded at startup
    pc,          \* position of the run: which stage has produced its table
    df_raw,      \* the table parsed from the file (ingestion.py:229-244)
    df_canon,    \* what load_transactions_excel returned
    df_again,    \* _infer_columns applied to its own output
    tx_in,       \* the canonical table handed to engineer_transaction_features
    df_feat,     \* engineer_transaction_features' result
    df_scored,   \* _score_transactions_with_model's result
    fraud_table, \* build_fraud_table's result
    cluster_insights, \* build_cluster_insights' result
    state,       \* the other fields of the AppState singleton (app.py:64-73)
    req,         \* the requests in flight, each with its locals and its position
    insights,    \* compute_basic_insights' result
    disk,        \* the uploaded file under DATA_DIR, by suffix
    resp,        \* the response a handler sent last
    frames       \* the candidate tables parsed from one file (ingestion.py:226-244)

vars == <<model_bundle, pc, df_raw, df_canon, df_again, tx_in, df_feat, df_scored,
          fraud_table, cluster_insights, state, req, insights, disk, resp, frames>>

---------------------------------------------------------------------------
(* Bounds of the model.                                                    *)

\* longest free-form amount string enumerated for _coerce_numeric
MaxStrLen == 3
\* most rows of a parsed table
MaxRows == 2
\* most columns of a parsed table
MaxCols == 3

---------------------------------------------------------------------------
(* Cells.                                                                  *)

NaN == [k |-> "null", n |-> 0, e |-> 0, s |-> <<>>]
Num(n, e) == [k |-> "num", n |-> n, e |-> e, s |-> <<>>]
Str(s) == [k |-> "str", n |-> 0, e |-> 0, s |-> s]
Ts(d, t) == [k |-> "ts", n |-> d, e |-> t, s |-> <<>>]

IsNull(c) == c.k = "null"
NotNa(c) == c.k # "null"

Pow10(e) == IF e = 0 THEN 1 ELSE IF e = 1 THEN 10 ELSE IF e = 2 THEN 100
            ELSE IF e = 3 THEN 1000 ELSE IF e = 4 THEN 10000 ELSE 100000

\* a decimal with the trailing zeros of its fraction removed: one value, one record
RECURSIVE Normal(_, _)
Normal(n, e) == IF e > 0 /\ n % 10 = 0 THEN Normal(n \div 10, e - 1) ELSE Num(n, e)

\* the number c at scale 10^e (e >= c.e)
Scaled(c, e) == c.n * Pow10(e - c.e)
MaxOf(a, b) == IF a >= b THEN a ELSE b
Abs(a) == IF a < 0 THEN -a ELSE a

\* Series - Series on float64 cells (NaN propagates)
NumSub(a, b) ==
    IF IsNull(a) \/ IsNull(b) THEN NaN
    ELSE LET e == MaxOf(a.e, b.e) IN Normal(Scaled(a, e) - Scaled(b, e), e)

---------------------------------------------------------------------------
(* Text: a string is a sequence of one-character strings.                  *)

DigitChars == <<"0", "1", "2", "3", "4", "5", "6", "7", "8", "9">>
IsDigit(c) == \E i \in 1..10 : DigitChars[i] = c
DigitVal(c) == (CHOOSE i \in 1..10 : DigitChars[i] = c) - 1

\* str.replace(old, new, regex=False) for a one-character old
RECURSIVE StrReplace(_, _, _)
StrReplace(s, old, new) ==
    IF s = <<>> THEN <<>>
    ELSE (IF Head(s) = old THEN new ELSE <<Head(s)>>) \o StrReplace(Tail(s), old, new)

RECURSIVE DigitsVal(_)
DigitsVal(s) == IF s = <<>> THEN 0 ELSE DigitsVal(SubSeq(s, 1, Len(s) - 1)) * 10 + DigitVal(s[Len(s)])

RECURSIVE NatDigits(_)
NatDigits(n) == IF n < 10 THEN <<DigitChars[n + 1]>> ELSE NatDigits(n \div 10) \o <<DigitChars[(n % 10) + 1]>>

RECURSIVE PadLeft(_, _)
PadLeft(s, w) == IF Len(s) >= w THEN s ELSE PadLeft(<<"0">> \o s, w)

AllDigits(s) == \A i \in 1..Len(s) : IsDigit(s[i])

\* str(x) of a float64: sign, integer digits, ".", fraction digits ("0" when whole)
FormatFloat(c) ==
    LET a == Abs(c.n)
        ip == a \div Pow10(c.e)
        fp == a % Pow10(c.e)
    IN  (IF c.n < 0 THEN <<"-">> ELSE <<>>) \o NatDigits(ip) \o <<".">>
        \o (IF c.e = 0 THEN <<"0">> ELSE PadLeft(NatDigits(fp), c.e))

\* pd.to_numeric(errors="coerce") of one string: [sign] digits [. digits], at
\* least one digit; anything else is NaN
ToNumericStr(s) ==
    LET signed == s # <<>> /\ Head(s) \in {"-", "+"}
        body == IF signed THEN Tail(s) ELSE s
        dots == {i \in 1..Len(body) : body[i] = "."}
        dot == IF dots = {} THEN Len(body) + 1 ELSE CHOOSE i \in dots : TRUE
        ip == SubSeq(body, 1, dot - 1)
        fp == SubSeq(body, dot + 1, Len(body))
        ok == /\ Cardinality(dots) <= 1
              /\ AllDigits(ip) /\ AllDigits(fp)
              /\ Len(ip) + Len(fp) >= 1
        mag == DigitsVal(ip \o fp)
    IN  IF ~ok THEN NaN
        ELSE Normal(IF signed /\ Head(s) = "-" THEN -mag ELSE mag, Len(fp))

\* Timestamp.__str__ is never numeric; NaN prints as "nan"
AsTypeStr(c) ==
    IF c.k = "num" THEN FormatFloat(c)
    ELSE IF c.k = "str" THEN c.s
    ELSE IF c.k = "ts" THEN <<"t", "s">>
    ELSE <<"n", "a", "n">>

\* variant: the rupee sign is left in place
StripSymbolsNoRupee(s) == StrReplace(StrReplace(StrReplace(s, "$", <<>>), "€", <<>>), "£", <<>>)

StripSymbols(s) ==
    StrReplace(StrReplace(StrReplace(StrReplace(s, "₹", <<>>), "$", <<>>), "€", <<>>), "£", <<>>)

\* variant: the full stop is dropped as a separator too
CleanAmountTextNoStop(s) ==
    StripSymbols(StrReplace(StrReplace(StrReplace(StrReplace(s, ".", <<>>), ",", <<>>), "(", <<"-">>), ")", <<>>))

CleanAmountText(s) ==
    StripSymbols(StrReplace(StrReplace(StrReplace(s, ",", <<>>), "(", <<"-">>), ")", <<>>))

\* _coerce_numeric on one cell
CoerceCell(c) == ToNumericStr(CleanAmountText(AsTypeStr(c)))

---------------------------------------------------------------------------
(* Dates.                                                                  *)

DaysBeforeMonth == <<0, 31, 59, 90, 120, 151, 181, 212, 243, 273, 304, 334>>
DaysInMonth == <<31, 28, 31, 30, 31, 30, 31, 31, 30, 31, 30, 31>>
IsLeap(y) == (y % 4 = 0 /\ y % 100 # 0) \/ y % 400 = 0
LeapsBefore(y) == ((y - 1) \div 4) - ((y - 1) \div 100) + ((y - 1) \div 400)
DaysFromCivil(y, m, d) ==
    (y - 1970) * 365 + (LeapsBefore(y) - LeapsBefore(1970)) + DaysBeforeMonth[m]
    + (IF IsLeap(y) /\ m > 2 THEN 1 ELSE 0) + (d - 1)

\* one string under pd.to_datetime(errors="coerce"): an ISO date YYYY-MM-DD, else NaT
ParseDate(s) ==
    IF /\ Len(s) = 10 /\ s[5] = "-" /\ s[8] = "-"
       /\ AllDigits(SubSeq(s, 1, 4)) /\ AllDigits(SubSeq(s, 6, 7)) /\ AllDigits(SubSeq(s, 9, 10))
    THEN LET y == DigitsVal(SubSeq(s, 1, 4))
             m == DigitsVal(SubSeq(s, 6, 7))
             d == DigitsVal(SubSeq(s, 9, 10))
         IN  IF /\ y >= 1970 /\ m \in 1..12 /\ d >= 1
                /\ d <= DaysInMonth[m] + (IF m = 2 /\ IsLeap(y) THEN 1 ELSE 0)
             THEN Ts(DaysFromCivil(y, m, d), 0)
             ELSE NaN
    ELSE NaN

\* pd.to_datetime(errors="coerce") on one cell: a number is nanoseconds since
\* the epoch, a Timestamp is kept, text is parsed
ToDatetimeCell(c) ==
    IF c.k = "ts" THEN c
    ELSE IF c.k = "num" THEN (IF c.n >= 0 THEN Ts(0, c.n \div Pow10(c.e)) ELSE Ts(-1, c.n \div Pow10(c.e)))
    ELSE IF c.k = "str" THEN ParseDate(c.s)
    ELSE NaN

\* Timestamp + i days
PlusDays(t, i) == Ts(t.n + i, t.e)

---------------------------------------------------------------------------
(* DataFrames.                                                             *)

Column(name, dtype, cells) == [name |-> name, dtype |-> dtype, cells |-> cells]
Frame(n, cols) == [n |-> n, cols |-> cols, err |-> FALSE]
Raised(f) == [f EXCEPT !.err = TRUE]

RECURSIVE SelectSeq2(_, _)
SelectSeq2(s, keep) ==
    IF s = <<>> THEN <<>>
    ELSE (IF keep[1] THEN <<Head(s)>> ELSE <<>>)
         \o SelectSeq2(Tail(s), [i \in 1..(Len(keep) - 1) |-> keep[i + 1]])

ColIdx(f, name) == {i \in 1..Len(f.cols) : f.cols[i].name = name}
HasCol(f, name) == ColIdx(f, name) # {}
\* df[name] is a DataFrame, not a Series, when the label is repeated
IsDup(f, name) == Cardinality(ColIdx(f, name)) > 1
FirstIdx(f, name) == CHOOSE i \in ColIdx(f, name) : \A j \in ColIdx(f, name) : i <= j
GetCol(f, name) == f.cols[FirstIdx(f, name)]

\* df[name] = values: overwrite the column(s) of that label, else append one
SetCol(f, name, dtype, cells) ==
    IF HasCol(f, name)
    THEN [f EXCEPT !.cols = [i \in 1..Len(f.cols) |->
                                IF f.cols[i].name = name THEN Column(name, dtype, cells)
                                ELSE f.cols[i]]]
    ELSE [f EXCEPT !.cols = Append(f.cols, Column(name, dtype, cells))]

FillNa(cells, v) == [i \in 1..Len(cells) |-> IF IsNull(cells[i]) THEN v ELSE cells[i]]
Const(n, v) == [i \in 1..n |-> v]
NotNaCount(cells) == Cardinality({i \in 1..Len(cells) : NotNa(cells[i])})
\* Series.nunique(dropna=True)
NUnique(cells) == Cardinality({cells[i] : i \in {j \in 1..Len(cells) : NotNa(cells[j])}})

\* the dtype pandas gives a parsed column: object when it holds text, else float64
ParsedDtype(cells) ==
    IF \E i \in 1..Len(cells) : cells[i].k = "str" THEN "object" ELSE "number"

\* the labels, in column order, of the columns of one dtype (select_dtypes)
RECURSIVE NamesOfDtype(_, _)
NamesOfDtype(cols, dtype) ==
    IF cols = <<>> THEN <<>>
    ELSE (IF Head(cols).dtype = dtype THEN <<Head(cols).name>> ELSE <<>>)
         \o NamesOfDtype(Tail(cols), dtype)


---------------------------------------------------------------------------
(* ingestion.py                                                            *)

REQUIRED_COLUMNS == <<"user_id", "amount", "category", "merchant", "country", "timestamp">>

AliasTimestamp == <<"timestamp", "date", "time", "txn_date", "transaction_date", "posted_date">>
AliasAmount == <<"amount", "value", "amt", "transaction_amount", "debit", "credit", "net_amount">>
AliasCategory == <<"category", "type", "expense_type", "revenue_type", "particulars", "description">>
AliasMerchant == <<"merchant", "vendor", "payee", "supplier", "counterparty", "party", "beneficiary">>
AliasCountry == <<"country", "nation", "region", "geo", "country_code", "location">>
AliasUser == <<"user_id", "user", "customer", "client", "account", "account_id", "member", "subscriber">>

\* str(c).strip().lower() on the headers the model enumerates
NormalizeName(h) ==
    CASE h = "Amount" -> "amount"
      [] h = " Vendor " -> "vendor"
      [] h = "Date" -> "date"
      [] h = "Txn Date" -> "txn date"
      [] OTHER -> h

_normalize_columns(f) ==
    [f EXCEPT !.cols = [i \in 1..Len(f.cols) |->
                           [f.cols[i] EXCEPT !.name = NormalizeName(f.cols[i].name)]]]

\* "date" in c or "time" in c or "month" in c, on the normalized labels that occur
HasDateWord(name) ==
    name \in {"date", "txn date", "timestamp", "time", "txn_date", "transaction_date", "posted_date"}

NoCol == ""

RECURSIVE PickFrom(_, _)
PickFrom(f, candidates) ==
    IF candidates = <<>> THEN NoCol
    ELSE IF HasCol(f, Head(candidates)) THEN Head(candidates)
    ELSE PickFrom(f, Tail(candidates))

_pick_column(f, candidates) == PickFrom(f, candidates)

_coerce_numeric(cells) == [i \in 1..Len(cells) |-> CoerceCell(cells[i])]

ToDatetime(cells) == [i \in 1..Len(cells) |-> ToDatetimeCell(cells[i])]

RECURSIVE SumSeq(_)
SumSeq(s) == IF s = <<>> THEN 0 ELSE Head(s) + SumSeq(Tail(s))

\* the indices, in column order, of the columns whose label is in names
IdxOfDtype(f, dtype) == {i \in 1..Len(f.cols) : f.cols[i].dtype = dtype}
AnyDupAmong(f, idxs) == \E i \in idxs : IsDup(f, f.cols[i].name)

\* ---- timestamp inference (lines 99-113)
DateCandidates(f) == {i \in 1..Len(f.cols) : HasDateWord(f.cols[i].name)}
ParsedCount(f, i) == NotNaCount(ToDatetime(f.cols[i].cells))
\* the loop keeps the first candidate whose parsed ratio is highest and above 0.0
BestDateCandidate(f) ==
    LET cand == {i \in DateCandidates(f) : ParsedCount(f, i) > 0}
    IN  IF cand = {} THEN NoCol
        ELSE f.cols[CHOOSE i \in cand :
                        /\ \A j \in cand : ParsedCount(f, j) <= ParsedCount(f, i)
                        /\ \A j \in cand : j < i => ParsedCount(f, j) < ParsedCount(f, i)].name

InferTimestamp(f) ==
    LET alias == _pick_column(f, AliasTimestamp)
        ts_col == IF alias # NoCol THEN alias ELSE BestDateCandidate(f)
    IN  IF alias = NoCol /\ AnyDupAmong(f, DateCandidates(f)) THEN Raised(f)
        ELSE IF ts_col = NoCol THEN f
        ELSE IF IsDup(f, ts_col) THEN Raised(f)
        ELSE SetCol(f, "timestamp", "datetime", ToDatetime(GetCol(f, ts_col).cells))

\* ---- amount inference (lines 115-134)
\* Series.var(skipna=True) as the fraction v / w at scale 10^(2e); NaN below 2 values
VarKey(cells, e) ==
    LET xs == SelectSeq(cells, NotNa)
        m == Len(xs)
        sx == SumSeq([i \in 1..m |-> Scaled(xs[i], e)])
        sxx == SumSeq([i \in 1..m |-> Scaled(xs[i], e) * Scaled(xs[i], e)])
    IN  IF m < 2 THEN [nan |-> TRUE, v |-> 0, w |-> 1]
        ELSE [nan |-> FALSE, v |-> m * sxx - sx * sx, w |-> m * (m - 1)]
\* key(a) > key(b) for key = variance, or -1 when it is NaN
VarGreater(a, b) == ~a.nan /\ (b.nan \/ a.v * b.w > b.v * a.w)

\* coerced.notna().mean() > 0.6
MostlyNumeric(cells) == NotNaCount(_coerce_numeric(cells)) * 10 > 6 * Len(cells)

\* lines 124-130: with no numeric column, every column that is mostly numeric
\* after coercion is replaced by its coerced values
CoerceColumns(f) ==
    [f EXCEPT !.cols = [i \in 1..Len(f.cols) |->
        IF MostlyNumeric(f.cols[i].cells)
        THEN Column(f.cols[i].name, "number", _coerce_numeric(f.cols[i].cells))
        ELSE f.cols[i]]]

MaxExp(f, idxs) ==
    LET es == {f.cols[i].cells[r].e : i \in idxs, r \in 1..f.n} \cup {0}
    IN  CHOOSE e \in es : \A x \in es : x <= e

\* max(variances, key=...): the first column of the highest variance
HighestVariance(f, idxs) ==
    LET e == MaxExp(f, idxs)
        key(i) == VarKey(f.cols[i].cells, e)
    IN  CHOOSE i \in idxs :
            /\ \A j \in idxs : ~VarGreater(key(j), key(i))
            /\ \A j \in idxs : j < i => VarGreater(key(i), key(j))

InferAmountStat(f) ==
    LET typed == IdxOfDtype(f, "number")
        g == IF typed = {} THEN CoerceColumns(f) ELSE f
        numeric_cols == IdxOfDtype(g, "number")
    IN  IF typed = {} /\ AnyDupAmong(f, 1..Len(f.cols)) THEN Raised(f)
        ELSE IF numeric_cols = {} THEN g
        ELSE IF AnyDupAmong(g, numeric_cols) THEN Raised(g)
        ELSE SetCol(g, "amount", "number",
                    _coerce_numeric(g.cols[HighestVariance(g, numeric_cols)].cells))

CreditMinusDebit(f) ==
    LET credit == FillNa(_coerce_numeric(GetCol(f, "credit").cells), Num(0, 0))
        debit == FillNa(_coerce_numeric(GetCol(f, "debit").cells), Num(0, 0))
    IN  [i \in 1..f.n |-> NumSub(credit[i], debit[i])]

InferAmount(f) ==
    IF HasCol(f, "debit") /\ HasCol(f, "credit")
    THEN IF IsDup(f, "debit") \/ IsDup(f, "credit") THEN Raised(f)
         ELSE SetCol(f, "amount", "number", CreditMinusDebit(f))
    ELSE LET amt_col == _pick_column(f, AliasAmount)
         IN  IF amt_col # NoCol
             THEN IF IsDup(f, amt_col) THEN Raised(f)
                  ELSE SetCol(f, "amount", "number", _coerce_numeric(GetCol(f, amt_col).cells))
             ELSE InferAmountStat(f)

\* ---- category inference (lines 136-142)
General == Str(<<"G", "e", "n", "e", "r", "a", "l">>)
Unknown == Str(<<"U", "n", "k", "n", "o", "w", "n">>)
User1 == Str(<<"u", "s", "e", "r", "-", "1">>)

\* min(counts, key=count if count > 0 else 1e9): the first text column of fewest values
FewestValues(f, idxs) ==
    LET key(i) == IF NUnique(f.cols[i].cells) > 0 THEN NUnique(f.cols[i].cells) ELSE 1000000000
    IN  CHOOSE i \in idxs :
            /\ \A j \in idxs : key(i) <= key(j)
            /\ \A j \in idxs : j < i => key(j) > key(i)

\* max(counts, key=count): the first text column of most values
MostValues(f, idxs) ==
    LET key(i) == NUnique(f.cols[i].cells)
    IN  CHOOSE i \in idxs :
            /\ \A j \in idxs : key(j) <= key(i)
            /\ \A j \in idxs : j < i => key(j) < key(i)

InferCategory(f) ==
    LET text_cols == IdxOfDtype(f, "object")
    IN  IF HasCol(f, "category") \/ text_cols = {} THEN f
        ELSE IF AnyDupAmong(f, text_cols) THEN Raised(f)
        ELSE SetCol(f, "category", "object",
                    FillNa(f.cols[FewestValues(f, text_cols)].cells, General))

\* ---- merchant inference (lines 144-153)
InferMerchant(f) ==
    LET merch_col == _pick_column(f, AliasMerchant)
        text_cols == IdxOfDtype(f, "object")
    IN  IF merch_col # NoCol
        THEN IF IsDup(f, merch_col) THEN Raised(f)
             ELSE SetCol(f, "merchant", GetCol(f, merch_col).dtype, GetCol(f, merch_col).cells)
        ELSE IF text_cols = {} THEN f
        ELSE IF AnyDupAmong(f, text_cols) THEN Raised(f)
        ELSE SetCol(f, "merchant", "object",
                    FillNa(f.cols[MostValues(f, text_cols)].cells, Unknown))

\* ---- country and user inference (lines 155-167)
InferAliasOrDefault(f, field, aliases, default) ==
    LET src == _pick_column(f, aliases)
    IN  IF src # NoCol
        THEN IF IsDup(f, src) THEN Raised(f)
             ELSE SetCol(f, field, GetCol(f, src).dtype, GetCol(f, src).cells)
        ELSE SetCol(f, field, "object", Const(f.n, default))

InferCountry(f) == InferAliasOrDefault(f, "country", AliasCountry, Unknown)
InferUser(f) == InferAliasOrDefault(f, "user_id", AliasUser, User1)

\* ---- fallbacks (lines 169-190)
\* variant: every row at the base
SyntheticTimestampsSameDay(n, today) == [i \in 1..n |-> today]

SyntheticTimestamps(n, today) == [i \in 1..n |-> PlusDays(today, i - 1)]

FallbackTimestamp(f, today) ==
    IF ~HasCol(f, "timestamp")
    THEN SetCol(f, "timestamp", "datetime", SyntheticTimestamps(f.n, today))
    ELSE LET ts == GetCol(f, "timestamp").cells
         IN  IF \A i \in 1..Len(ts) : IsNull(ts[i])
             THEN SetCol(f, "timestamp", "datetime", SyntheticTimestamps(f.n, today))
             ELSE SetCol(f, "timestamp", "datetime", FillNa(ts, today))

FallbackAmount(f) ==
    LET g == IF HasCol(f, "amount") THEN f
             ELSE SetCol(f, "amount", "number", Const(f.n, Num(0, 0)))
    IN  IF IsDup(g, "amount") THEN Raised(g)
        ELSE SetCol(g, "amount", "number",
                    FillNa(_coerce_numeric(GetCol(g, "amount").cells), Num(0, 0)))

FallbackLiteral(f, field, default) ==
    IF HasCol(f, field) THEN f ELSE SetCol(f, field, "object", Const(f.n, default))

\* lines 183-190
FallbackLiterals(f) ==
    FallbackLiteral(FallbackLiteral(FallbackLiteral(FallbackLiteral(
        f, "category", General), "merchant", Unknown), "country", Unknown), "user_id", User1)

\* the k-th block of the function body; a block runs only while nothing has raised
LastBlock == 9
Block(k, f, today) ==
    IF f.err THEN f
    ELSE CASE k = 1 -> InferTimestamp(f)
           [] k = 2 -> InferAmount(f)
           [] k = 3 -> InferCategory(f)
           [] k = 4 -> InferMerchant(f)
           [] k = 5 -> InferCountry(f)
           [] k = 6 -> InferUser(f)
           [] k = 7 -> FallbackTimestamp(f, today)
           [] k = 8 -> FallbackAmount(f)
           [] OTHER -> FallbackLiterals(f)

\* the blocks from the k-th on, each on the table the one before it left
RECURSIVE BlocksFrom(_, _, _)
BlocksFrom(k, f, today) ==
    IF k > LastBlock THEN f
    ELSE CHOOSE out \in {BlocksFrom(k + 1, g, today) : g \in {Block(k, f, today)}} : TRUE

_infer_columns(df, today) ==
    CHOOSE out \in {BlocksFrom(1, d0, today) : d0 \in {_normalize_columns(df)}} : TRUE

\* ---- load_transactions_excel (lines 248-250): trim, then infer
\* dropna(axis=0, how="all")
DropNullRows(f) ==
    LET keep == [r \in 1..f.n |-> \E i \in 1..Len(f.cols) : NotNa(f.cols[i].cells[r])]
        n2 == Cardinality({r \in 1..f.n : keep[r]})
    IN  [f EXCEPT !.n = n2,
                  !.cols = [i \in 1..Len(f.cols) |->
                               [f.cols[i] EXCEPT !.cells = SelectSeq2(f.cols[i].cells, keep)]]]
\* dropna(axis=1, how="all")
DropNullCols(f) ==
    [f EXCEPT !.cols = SelectSeq2(f.cols,
        [i \in 1..Len(f.cols) |-> \E r \in 1..f.n : NotNa(f.cols[i].cells[r])])]

Trimmed(f) == DropNullCols(DropNullRows(f))
IsEmpty(f) == f.n = 0 \/ f.cols = <<>>

load_transactions_excel(parsed, today) == _infer_columns(Trimmed(parsed), today)

---------------------------------------------------------------------------
(* The parsed tables the model enumerates.                                 *)

\* the raw headers, in the column order of the file
Headers == <<"Amount", "amount", "debit", "credit", " Vendor ", "type", "notes", "Date", "Txn Date">>

Letters == <<"a", "b", "c", "d", "e", "f", "g", "h", "i">>
IsoDate(day) == <<"1", "9", "7", "0", "-", "0", "1", "-">> \o PadLeft(NatDigits(day), 2)

\* the cell of row r in a column of one content pattern
PatternCell(p, r) ==
    CASE p = "num" -> Num(r * r, 0)
      [] p = "money" -> IF r % 2 = 1 THEN Str(<<"(">> \o NatDigits(r) \o <<".", "5", ")">>)
                        ELSE Str(<<"$">> \o NatDigits(r))
      [] p = "date" -> Str(IsoDate(r + 1))
      [] p = "text" -> Str(<<Letters[r]>>)
      [] p = "mixed" -> IF r = 1 THEN NaN ELSE IF r = 2 THEN Str(IsoDate(9)) ELSE Str(<<"a">>)

\* the content patterns a header is enumerated with
PatternsOf(h) ==
    CASE h \in {"Amount", "debit", "credit"} -> {"num", "money", "mixed"}
      [] h = "amount" -> {"num", "money", "text"}
      [] h = " Vendor " -> {"text", "mixed", "date"}
      [] h = "type" -> {"text", "mixed", "money"}
      [] h = "notes" -> {"text", "mixed", "num"}
      [] h = "Date" -> {"date", "mixed", "text"}
      [] h = "Txn Date" -> {"date", "mixed", "num"}

RECURSIVE SortedSeq(_)
SortedSeq(S) ==
    IF S = {} THEN <<>>
    ELSE LET m == CHOOSE x \in S : \A y \in S : x <= y IN <<m>> \o SortedSeq(S \ {m})

ParsedColumn(h, p, n) ==
    LET cells == [r \in 1..n |-> PatternCell(p, r)] IN Column(h, ParsedDtype(cells), cells)

ParsedTable(S, p, n) ==
    LET idx == SortedSeq(S)
    IN  Frame(n, [i \in 1..Len(idx) |-> ParsedColumn(Headers[idx[i]], p[idx[i]], n)])

AmountAlphabet == {"1", "5", ",", "(", ")", "₹", "$", "€", "£", ".", "-", "x"}

AmountExamples ==
    { <<"(", "1", ",", "2", "3", "4", ".", "5", "0", ")">>,
      <<"$", "1", "2", "3", "4", ".", "5", "0">>,
      <<"₹", "1", "2", "3", "4", ".", "5", "0">>,
      <<"1", "2", "3", "4", ".", "5", "0">> }

AmountStrings ==
    AmountExamples \cup UNION {[1..k -> AmountAlphabet] : k \in 0..MaxStrLen}

\* a one-row table whose only column is an amount column holding the text s
AmountTable(s) == Frame(1, <<Column("amount", "object", <<Str(s)>>)>>)

\* the values Timestamp.today() takes
Todays == {Ts(20000, 7), Ts(20031, 0)}

Unset == <<>>
None == [none |-> TRUE]

---------------------------------------------------------------------------
(* The normalizer run: parse, normalize, normalize again.                  *)

\* ---- candidate selection (lines 45-69)
numeric_weight == 50
date_weight == 25

\* _frame_score: to_datetime raises on a repeated label, and the column is
\* skipped
_frame_score(df) ==
    IF df.n = 0 \/ Len(df.cols) = 0 THEN 0
    ELSE LET non_null == SumSeq([i \in 1..Len(df.cols) |-> NotNaCount(df.cols[i].cells)])
             numeric_cols == Cardinality(IdxOfDtype(df, "number"))
             date_like == Cardinality({i \in 1..Len(df.cols) :
                              /\ ~IsDup(df, df.cols[i].name)
                              /\ 2 * NotNaCount(ToDatetime(df.cols[i].cells)) > df.n})
         IN  non_null + numeric_cols * numeric_weight + date_like * date_weight

\* variant: a candidate of equal score replaces the best
ReplacesOnTie(score, best_score) == score >= best_score

\* score > best_score
Replaces(score, best_score) == score > best_score

\* the loop of _best_frame from candidate k on; best is an index, 0 for None
RECURSIVE BestFrom(_, _, _, _)
BestFrom(candidates, k, best, best_score) ==
    IF k > Len(candidates) THEN best
    ELSE IF Replaces(_frame_score(candidates[k]), best_score)
         THEN BestFrom(candidates, k + 1, k, _frame_score(candidates[k]))
         ELSE BestFrom(candidates, k + 1, best, best_score)

_best_frame(candidates) ==
    LET best == BestFrom(candidates, 1, 0, -1)
    IN  IF best = 0 THEN Frame(0, <<>>) ELSE candidates[best]

\* the sum of f over the set S
RECURSIVE SumOver(_, _)
SumOver(f, S) ==
    IF S = {} THEN 0 ELSE LET j == CHOOSE j \in S : TRUE IN f[j] + SumOver(f, S \ {j})

\* What a call leaves in the table it is given: a function assigns columns
\* to its working table, and the caller's table takes those writes only when
\* the working table is the caller's own.

\* variant: the working table is the caller's table
NoCopy(df) == [table |-> df, shares |-> TRUE]

\* df.copy()
Copy(df) == [table |-> df, shares |-> FALSE]

CallerSees(arg, work, written) == IF work.shares THEN written ELSE arg

InitTables ==
    \E S \in SUBSET (1..Len(Headers)) : \E n \in 0..MaxRows :
        /\ Cardinality(S) <= MaxCols
        /\ (S = {} => n = 0)
        /\ \E p \in [S -> {"num", "money", "date", "text", "mixed"}] :
              /\ \A i \in S : p[i] \in PatternsOf(Headers[i])
              /\ df_raw = ParsedTable(S, p, n)

InitAmounts == \E s \in AmountStrings : df_raw = AmountTable(s)

InitNorm ==
    /\ pc = "parsed"
    /\ InitTables
    /\ df_canon = Unset /\ df_again = Unset
    /\ tx_in = Unset /\ df_feat = Unset /\ df_scored = Unset
    /\ fraud_table = Unset /\ cluster_insights = Unset /\ state = Unset /\ req = Unset
    /\ insights = Unset /\ disk = Unset /\ resp = Unset /\ frames = Unset
    /\ model_bundle = None

\* load_transactions_excel on the parsed table
Normalize ==
    /\ pc = "parsed"
    /\ \E today \in Todays : df_canon' = load_transactions_excel(df_raw, today)
    /\ pc' = "normalized"
    /\ UNCHANGED <<frames, resp, insights, disk, fraud_table, cluster_insights, state, req, model_bundle, df_raw, df_again, tx_in, df_feat, df_scored>>

\* _infer_columns on the table it returned
Renormalize ==
    /\ pc = "normalized" /\ ~df_canon.err
    /\ \E today \in Todays :
          /\ df_again' = _infer_columns(df_canon, today)
          /\ df_canon' = CallerSees(df_canon, Copy(df_canon), _infer_columns(df_canon, today))
    /\ pc' = "renormalized"
    /\ UNCHANGED <<frames, resp, insights, disk, fraud_table, cluster_insights, state, req, model_bundle, df_raw, tx_in, df_feat, df_scored>>

NextNorm == Normalize \/ Renormalize

SpecNorm == InitNorm /\ [][NextNorm]_vars

\* the same run on the one-cell amount tables
InitCoerce ==
    /\ pc = "parsed"
    /\ InitAmounts
    /\ df_canon = Unset /\ df_again = Unset
    /\ tx_in = Unset /\ df_feat = Unset /\ df_scored = Unset
    /\ fraud_table = Unset /\ cluster_insights = Unset /\ state = Unset /\ req = Unset
    /\ insights = Unset /\ disk = Unset /\ resp = Unset /\ frames = Unset
    /\ model_bundle = None

SpecCoerce == InitCoerce /\ [][NextNorm]_vars

\* the run from the candidates parsed from one file
MaxFrames == 2

\* tables of an amount column, a date column, both or neither, of no row or two
CandidateFrames ==
    UNION {{ParsedTable(S, p, n) :
               p \in {q \in [S -> {"num", "money", "date", "text", "mixed"}] :
                         \A i \in S : q[i] \in PatternsOf(Headers[i])}} :
           S \in SUBSET {1, 8}, n \in {0, 2}}

InitBest ==
    /\ pc = "read"
    /\ frames \in UNION {[1..k -> CandidateFrames] : k \in 1..MaxFrames}
    /\ df_raw = Unset /\ df_canon = Unset /\ df_again = Unset
    /\ tx_in = Unset /\ df_feat = Unset /\ df_scored = Unset
    /\ fraud_table = Unset /\ cluster_insights = Unset /\ state = Unset /\ req = Unset
    /\ insights = Unset /\ disk = Unset /\ resp = Unset
    /\ model_bundle = None

\* df_raw = _best_frame(frames)
SelectBest ==
    /\ pc = "read"
    /\ df_raw' = _best_frame(frames)
    /\ pc' = "parsed"
    /\ UNCHANGED <<frames, resp, insights, disk, fraud_table, cluster_insights, state, req,
                   model_bundle, df_canon, df_again, tx_in, df_feat, df_scored>>

NextBest == SelectBest \/ Normalize \/ Renormalize

SpecBest == InitBest /\ [][NextBest]_vars

---------------------------------------------------------------------------
(* features.py                                                             *)
(*                                                                         *)
(* A transaction table is a sequence of rows (records).  user_id is a      *)
(* number (the rank of the id in sort order), amount a whole number, and   *)
(* timestamp, category and country are cells.  A float that may be NaN is  *)
(* a fraction [null, num, den]; a standard deviation is kept as its square *)
(* [null, v, w], the variance v / w.                                       *)

window_size == 10
min_periods == 3
\* max(5.0, quantile): the floor of the velocity threshold
velocity_floor == 5
\* quantile(0.9), in tenths
quantile_tenths == 9
\* eps = 1e-6 = 1 / eps_inverse
eps_inverse == 1000000
\* abs(zscore) > 3.0
zscore_limit == 3

NaNF == [null |-> TRUE, num |-> 0, den |-> 1]
Float(x) == [null |-> FALSE, num |-> x, den |-> 1]
Frac(a, b) == [null |-> FALSE, num |-> a, den |-> b]
NoStd == [null |-> TRUE, v |-> 0, w |-> 1]

TsLess(a, b) == a.n < b.n \/ (a.n = b.n /\ a.e < b.e)
KeyLess(r1, r2) ==
    \/ r1.user_id < r2.user_id
    \/ (r1.user_id = r2.user_id /\ TsLess(r1.timestamp, r2.timestamp))
KeyEq(r1, r2) == r1.user_id = r2.user_id /\ r1.timestamp = r2.timestamp

\* variant: sorted by user alone
SortByUserOnly(rows) ==
    LET n == Len(rows)
        rank == [i \in 1..n |->
                    1 + Cardinality({j \in 1..n :
                            \/ rows[j].user_id < rows[i].user_id
                            \/ (rows[j].user_id = rows[i].user_id /\ j < i)})]
    IN  [p \in 1..n |-> rows[CHOOSE i \in 1..n : rank[i] = p]]

\* sort_values(["user_id", "timestamp"]) (stable), reset_index(drop=True)
_sort_by_user_time(rows) ==
    LET n == Len(rows)
        rank == [i \in 1..n |->
                    1 + Cardinality({j \in 1..n :
                            \/ KeyLess(rows[j], rows[i])
                            \/ (KeyEq(rows[j], rows[i]) /\ j < i)})]
    IN  [p \in 1..n |-> rows[CHOOSE i \in 1..n : rank[i] = p]]

\* lines 41-42: coerce the timestamps, drop the rows whose timestamp is NaT
HasTimestamp(r) == NotNa(ToDatetimeCell(r.timestamp))
CoerceTimestamp(r) == [r EXCEPT !.timestamp = ToDatetimeCell(r.timestamp)]
DropNaT(rows) ==
    LET kept == SelectSeq(rows, HasTimestamp)
    IN  [i \in 1..Len(kept) |-> CoerceTimestamp(kept[i])]

\* the rows up to i, in order, that share row i's user
UserRowsUpTo(rows, i) == SelectSeq(SubSeq(rows, 1, i), LAMBDA r : r.user_id = rows[i].user_id)

Amounts(rs) == [j \in 1..Len(rs) |-> rs[j].amount]
Squares(xs) == [j \in 1..Len(xs) |-> xs[j] * xs[j]]

\* variant: a running sum that waits for min_periods rows, like the rolling columns
CumulativeSpendNoFirst(rows, i) ==
    IF Len(UserRowsUpTo(rows, i)) < min_periods THEN NaNF
    ELSE Float(SumSeq(Amounts(UserRowsUpTo(rows, i))))

\* groupby("user_id")[amount].cumsum()
CumulativeSpend(rows, i) == Float(SumSeq(Amounts(UserRowsUpTo(rows, i))))

\* groupby(["user_id", "category"])[amount].cumsum(): a null key has no group
CategorySpend(rows, i) ==
    IF IsNull(rows[i].category) THEN NaNF
    ELSE Float(SumSeq(Amounts(SelectSeq(UserRowsUpTo(rows, i),
                                        LAMBDA r : r.category = rows[i].category))))

\* timestamp.dt.date
TxDate(r) == r.timestamp.n

\* groupby(["user_id", "tx_date"])["amount"].transform("count")
DayCount(rows, i) ==
    Cardinality({j \in 1..Len(rows) :
                    rows[j].user_id = rows[i].user_id /\ TxDate(rows[j]) = TxDate(rows[i])})

\* the k-th smallest of the values vals[1..n]
KthSmallest(vals, k) ==
    CHOOSE x \in {vals[i] : i \in 1..Len(vals)} :
        /\ Cardinality({i \in 1..Len(vals) : vals[i] < x}) < k
        /\ Cardinality({i \in 1..Len(vals) : vals[i] <= x}) >= k

\* Series.quantile(0.9), linear interpolation, times 10; NaN for no rows
QuantileTenths(vals) ==
    LET n == Len(vals)
        pos == quantile_tenths * (n - 1)
        lo == KthSmallest(vals, (pos \div 10) + 1)
        hi == KthSmallest(vals, (pos \div 10) + 2)
    IN  IF n = 0 THEN NaNF
        ELSE IF pos % 10 = 0 THEN Float(10 * lo)
        ELSE Float(10 * lo + (pos % 10) * (hi - lo))

\* variant: the quantile alone, without the floor
VelocityThresholdNoFloor(vals) ==
    LET q == QuantileTenths(vals) IN IF q.null THEN 10 * velocity_floor ELSE q.num

\* max(5.0, quantile), in tenths: Python's max keeps 5.0 unless the second is greater
VelocityThresholdTenths(vals) ==
    LET q == QuantileTenths(vals)
    IN  IF ~q.null /\ q.num > 10 * velocity_floor THEN q.num ELSE 10 * velocity_floor

\* variant: the window ends at the previous transaction
WindowExcludingCurrent(rows, i) ==
    LET mine == UserRowsUpTo(rows, i)
    IN  SubSeq(mine, MaxOf(1, Len(mine) - window_size), Len(mine) - 1)

\* the trailing window of row i: the last window_size rows of its user, itself included
Window(rows, i) ==
    LET mine == UserRowsUpTo(rows, i)
    IN  SubSeq(mine, MaxOf(1, Len(mine) - window_size + 1), Len(mine))

\* rolling(window_size, min_periods=3).mean()
RollingMean(rows, i) ==
    LET xs == Amounts(Window(rows, i))
    IN  IF Len(xs) < min_periods THEN NaNF ELSE Frac(SumSeq(xs), Len(xs))

\* rolling(window_size, min_periods=3).std(): the sample deviation (ddof = 1),
\* sqrt(v / w) with v = m * sum(x^2) - sum(x)^2 and w = m * (m - 1)
RollingStd(rows, i) ==
    LET xs == Amounts(Window(rows, i))
        m == Len(xs)
    IN  IF m < min_periods THEN NoStd
        ELSE [null |-> FALSE, v |-> m * SumSeq(Squares(xs)) - SumSeq(xs) * SumSeq(xs),
              w |-> m * (m - 1)]

\* (amount - rolling_mean) / (rolling_std.fillna(0.0) + eps), kept as its parts:
\* amount - mean = d / m, std = sqrt(v / w)
ZScore(amount, mean, std) ==
    IF mean.null THEN [null |-> TRUE, d |-> 0, m |-> 1, v |-> 0, w |-> 1]
    ELSE [null |-> FALSE, d |-> amount * mean.den - mean.num, m |-> mean.den,
          v |-> IF std.null THEN 0 ELSE std.v, w |-> IF std.null THEN 1 ELSE std.w]

ZIsZero(z) == ~z.null /\ z.d = 0

\* variant: abs(zscore) > 2.0
AbsZAboveTwo(z) ==
    LET q == 2
        A == z.d * z.d * z.w - q * q * z.v * z.m * z.m
        B == 2 * q * z.m * Abs(z.d) * z.w
    IN  /\ ~z.null
        /\ z.d # 0
        /\ (B + (eps_inverse - 1)) \div eps_inverse <= A

\* zscore.abs() > 3.0, that is |d|/m > 3 * (sqrt(v/w) + 1/E) with E = eps_inverse.
\* The left side less 3/E is positive as soon as d # 0 (E > 3m), so squaring gives
\*   E^2 * A - E * B + C > 0,  A = d^2 w - 9 v m^2,  B = 6 m |d| w,  C = 9 m^2 w,
\* and as 0 < C < E this is  B <= E * A.
AbsZAboveLimit(z) ==
    LET q == zscore_limit
        A == z.d * z.d * z.w - q * q * z.v * z.m * z.m
        B == 2 * q * z.m * Abs(z.d) * z.w
    IN  /\ ~z.null
        /\ z.d # 0
        /\ (B + (eps_inverse - 1)) \div eps_inverse <= A

\* groupby("user_id")["country"].shift(1)
PrevCountry(rows, i) ==
    IF i > 1 /\ rows[i - 1].user_id = rows[i].user_id THEN rows[i - 1].country ELSE NaN

\* variant: compared with the row before, whoever made it
CountryChangedAnyUser(rows, i) ==
    i > 1 /\ NotNa(rows[i - 1].country) /\ rows[i].country # rows[i - 1].country

\* prev_country.notna() & (country != prev_country)
CountryChanged(rows, i) ==
    NotNa(PrevCountry(rows, i)) /\ rows[i].country # PrevCountry(rows, i)

\* pd.to_numeric(label, errors="coerce").fillna(0).astype(int).astype(bool)
LabelAsBool(c) ==
    LET x == IF c.k = "num" THEN c ELSE IF c.k = "str" THEN ToNumericStr(c.s) ELSE NaN
    IN  NotNa(x) /\ (Abs(x.n) \div Pow10(x.e)) # 0

\* variant: the dataset's own label is left out
RuleFlagNoLabel(anomaly, changed, has_label, label) == anomaly \/ changed

\* is_amount_anomaly.fillna(False) | country_changed.fillna(False), then the
\* dataset's own label when it has one (lines 96-120)
RuleFlag(anomaly, changed, has_label, label) ==
    (anomaly \/ changed) \/ (has_label /\ LabelAsBool(label))

FeatureRow(rows, i, threshold, has_label) ==
    LET r == rows[i]
        mean == RollingMean(rows, i)
        std == RollingStd(rows, i)
        z == ZScore(r.amount, mean, std)
        anomaly == AbsZAboveLimit(z)
        changed == CountryChanged(rows, i)
    IN  [user_id |-> r.user_id, timestamp |-> r.timestamp, amount |-> r.amount,
         category |-> r.category, merchant |-> r.merchant, country |-> r.country,
         is_fraud |-> r.is_fraud,
         user_cumulative_spend |-> CumulativeSpend(rows, i),
         user_category_spend |-> CategorySpend(rows, i),
         tx_date |-> TxDate(r),
         user_tx_velocity_per_day |-> Float(DayCount(rows, i)),
         velocity_flag |-> 10 * DayCount(rows, i) > threshold,
         rolling_mean_amount |-> mean,
         rolling_std_amount |-> std,
         zscore_amount |-> z,
         is_amount_anomaly |-> anomaly,
         prev_country |-> PrevCountry(rows, i),
         country_changed |-> changed,
         rule_based_fraud_flag |-> RuleFlag(anomaly, changed, has_label, r.is_fraud)]

\* a table is [rows, has_label]: has_label says that it carries an is_fraud column
engineer_transaction_features(df) ==
    LET rows == _sort_by_user_time(DropNaT(df.rows))
        n == Len(rows)
        threshold == VelocityThresholdTenths([i \in 1..n |-> DayCount(rows, i)])
    IN  [rows |-> [i \in 1..n |-> FeatureRow(rows, i, threshold, df.has_label)],
         has_label |-> df.has_label]

---------------------------------------------------------------------------
(* app.py: _score_transactions_with_model                                  *)
(*                                                                         *)
(* A bundle is [engineered_feature_names, classifier].  The classifier is  *)
(* opaque to the program; the model takes the one-split trees              *)
(* [feature, cut, low, high]: the positive-class probability is high when  *)
(* the feature-th engineered value exceeds cut, else low.                  *)

\* scores > 0.6, in tenths
model_flag_tenths == 6

\* variant: a column the table lacks enters as 1.0
EngineeredValueMissingAsOne(row, name) ==
    IF name \notin DOMAIN row THEN Frac(1, 1)
    ELSE CASE name \in {"user_cumulative_spend", "user_category_spend",
                        "user_tx_velocity_per_day", "rolling_mean_amount"} ->
                IF row[name].null THEN Frac(0, 1) ELSE Frac(row[name].num, row[name].den)
           [] name = "country_changed" -> Frac(IF row.country_changed THEN 1 ELSE 0, 1)

\* df.reindex(columns=[name]).fillna(0.0).astype(float) for one row, as a
\* fraction: a column the table lacks is all NaN, and NaN becomes 0.0.  Of the
\* columns of the table the float and bool ones other than the deviation and
\* the z-score are modelled.
EngineeredValue(row, name) ==
    IF name \notin DOMAIN row THEN Frac(0, 1)
    ELSE CASE name \in {"user_cumulative_spend", "user_category_spend",
                        "user_tx_velocity_per_day", "rolling_mean_amount"} ->
                IF row[name].null THEN Frac(0, 1) ELSE Frac(row[name].num, row[name].den)
           [] name = "country_changed" -> Frac(IF row.country_changed THEN 1 ELSE 0, 1)

\* clf.predict_proba(X_full)[:, 1] for one row
PredictProba(bundle, row) ==
    LET clf == bundle.classifier
        x == EngineeredValue(row, bundle.engineered_feature_names[clf.feature])
    IN  IF x.num > clf.cut * x.den THEN clf.high ELSE clf.low

\* variant: a score of exactly 0.6 is flagged
AtLeastModelThreshold(score) == score.n * 10 >= model_flag_tenths * Pow10(score.e)

\* scores > 0.6
AboveModelThreshold(score) == score.n * 10 > model_flag_tenths * Pow10(score.e)

\* bool.astype(float)
BoolAsFloat(b) == IF b THEN Num(1, 0) ELSE Num(0, 0)

ScoredRow(row, score, flag) ==
    [user_id |-> row.user_id, timestamp |-> row.timestamp, amount |-> row.amount,
     category |-> row.category, merchant |-> row.merchant, country |-> row.country,
     is_fraud |-> row.is_fraud,
     user_cumulative_spend |-> row.user_cumulative_spend,
     user_category_spend |-> row.user_category_spend,
     tx_date |-> row.tx_date,
     user_tx_velocity_per_day |-> row.user_tx_velocity_per_day,
     velocity_flag |-> row.velocity_flag,
     rolling_mean_amount |-> row.rolling_mean_amount,
     rolling_std_amount |-> row.rolling_std_amount,
     zscore_amount |-> row.zscore_amount,
     is_amount_anomaly |-> row.is_amount_anomaly,
     prev_country |-> row.prev_country,
     country_changed |-> row.country_changed,
     rule_based_fraud_flag |-> row.rule_based_fraud_flag,
     fraud_score |-> score,
     model_fraud_flag |-> flag]

\* variant: the fallback score follows the amount anomaly alone
FallbackScoreAnomalyOnly(row) == BoolAsFloat(row.is_amount_anomaly)

\* lines 114-118: no bundle
FallbackScore(row) == BoolAsFloat(row.rule_based_fraud_flag)
FallbackFlag(row) == row.rule_based_fraud_flag

_score_transactions_with_model(df, bundle) ==
    [rows |-> [i \in 1..Len(df.rows) |->
                  IF bundle = None
                  THEN ScoredRow(df.rows[i], FallbackScore(df.rows[i]), FallbackFlag(df.rows[i]))
                  ELSE ScoredRow(df.rows[i], PredictProba(bundle, df.rows[i]),
                                 AboveModelThreshold(PredictProba(bundle, df.rows[i])))],
     has_label |-> df.has_label]

---------------------------------------------------------------------------
(* insights.py: build_fraud_table                                          *)
(*                                                                         *)
(* A scored table is [rows, has_label]; a fraud score is a "num" cell.     *)

\* a > b on two "num" cells
NumGreater(a, b) ==
    LET e == MaxOf(a.e, b.e) IN Scaled(a, e) > Scaled(b, e)

\* fraud_score > 0.5
fraud_table_tenths == 5
\* variant: a score of exactly 0.5 counts as risky
AtLeastFraudThreshold(score) == score.n * 10 >= fraud_table_tenths * Pow10(score.e)

AboveFraudThreshold(score) == score.n * 10 > fraud_table_tenths * Pow10(score.e)

\* lines 94-103: the mask
IsFlagged(row) ==
    \/ row.rule_based_fraud_flag
    \/ row.model_fraud_flag
    \/ AboveFraudThreshold(row.fraud_score)

\* Timestamp.isoformat(): YYYY-MM-DD, then "T" and the offset inside the day
CivilYear(d) ==
    CHOOSE y \in 1970..2099 : DaysFromCivil(y, 1, 1) <= d /\ d < DaysFromCivil(y + 1, 1, 1)
CivilMonth(d) ==
    CHOOSE m \in 1..12 :
        /\ DaysFromCivil(CivilYear(d), m, 1) <= d
        /\ m < 12 => d < DaysFromCivil(CivilYear(d), m + 1, 1)
IsoFormat(ts) ==
    PadLeft(NatDigits(CivilYear(ts.n)), 4) \o <<"-">>
    \o PadLeft(NatDigits(CivilMonth(ts.n)), 2) \o <<"-">>
    \o PadLeft(NatDigits(ts.n - DaysFromCivil(CivilYear(ts.n), CivilMonth(ts.n), 1) + 1), 2)
    \o <<"T">> \o NatDigits(ts.e)

\* lines 112-149: the record of one flagged row; id is the row's index label
FraudRecord(row, id) ==
    [id |-> id, user_id |-> row.user_id,
     timestamp |-> IF row.timestamp.k = "ts" THEN Str(IsoFormat(row.timestamp)) ELSE row.timestamp,
     amount |-> row.amount, category |-> row.category, merchant |-> row.merchant,
     country |-> row.country, fraud_score |-> row.fraud_score,
     rule_based_fraud_flag |-> row.rule_based_fraud_flag,
     model_fraud_flag |-> row.model_fraud_flag,
     velocity_flag |-> row.velocity_flag]

\* line 152: list.sort(key=fraud_score, reverse=True), which is stable
SortByScoreDescending(recs) ==
    LET n == Len(recs)
        rank == [i \in 1..n |->
                    1 + Cardinality({j \in 1..n :
                            \/ NumGreater(recs[j].fraud_score, recs[i].fraud_score)
                            \/ (recs[j].fraud_score = recs[i].fraud_score /\ j < i)})]
    IN  [p \in 1..n |-> recs[CHOOSE i \in 1..n : rank[i] = p]]

build_fraud_table(df) ==
    LET flagged == SortedSeq({i \in 1..Len(df.rows) : IsFlagged(df.rows[i])})
    IN  SortByScoreDescending([k \in 1..Len(flagged) |->
                                  FraudRecord(df.rows[flagged[k]], flagged[k] - 1)])

---------------------------------------------------------------------------
(* src/insights.py: build_cluster_insights.  Means are exact fractions.     *)

FracGreater(a, b) == a.num * b.den > b.num * a.den

FracAdd(a, b) ==
    IF a.den = b.den THEN Frac(a.num + b.num, a.den)
    ELSE Frac(a.num * b.den + b.num * a.den, a.den * b.den)

\* the sum of vals over a non-empty sequence of positions
RECURSIVE SumFrac(_, _)
SumFrac(vals, at) ==
    IF Len(at) = 1 THEN vals[at[1]]
    ELSE FracAdd(vals[at[1]], SumFrac(vals, Tail(at)))

\* Series.mean() of one group
MeanOf(vals, members) ==
    LET total == SumFrac(vals, SortedSeq(members))
    IN  Frac(total.num, total.den * Cardinality(members))

\* the group keys of the tables below, in the order groupby sorts them
KeyOrder == <<"IN", "UK", "US", "a", "b", "c", "d", "e">>

KeyRank(col, key) ==
    IF col = "user_id" THEN key
    ELSE CHOOSE r \in 1..Len(KeyOrder) : Str(<<KeyOrder[r]>>) = key

\* df.groupby(col)[vals].mean(): one entry per key, in key order
GroupMeans(df, col, vals) ==
    LET n == Len(df.rows)
        keys == {df.rows[i][col] : i \in {j \in 1..n : col = "user_id" \/ NotNa(df.rows[j][col])}}
        ranks == SortedSeq({KeyRank(col, k) : k \in keys})
    IN  [p \in 1..Len(ranks) |->
            LET key == CHOOSE k \in keys : KeyRank(col, k) = ranks[p]
            IN  [key |-> key,
                 score |-> MeanOf(vals, {i \in 1..n : df.rows[i][col] = key})]]

\* sort_values(ascending=False) and sorted(..., reverse=True): equal scores
\* keep their order
SortDescending(entries) ==
    LET n == Len(entries)
        rank == [i \in 1..n |->
                    1 + Cardinality({j \in 1..n :
                            \/ FracGreater(entries[j].score, entries[i].score)
                            \/ (~FracGreater(entries[i].score, entries[j].score) /\ j < i)})]
    IN  [p \in 1..n |-> entries[CHOOSE i \in 1..n : rank[i] = p]]

\* .head(k)
HeadOf(entries, k) == SubSeq(entries, 1, IF Len(entries) < k THEN Len(entries) ELSE k)

category_clusters == 3
geo_clusters == 2
velocity_clusters == 2
top_clusters == 5

\* (scores / max(scores.max(), 1e-6)).clip(0, 1), NaN scores filled with 0.0
RiskNorm(df) ==
    LET n == Len(df.rows)
        e == CHOOSE x \in {df.rows[i].fraud_score.e : i \in 1..n} :
                \A i \in 1..n : df.rows[i].fraud_score.e <= x
        s == [i \in 1..n |-> Scaled(df.rows[i].fraud_score, e)]
        top == CHOOSE x \in {s[i] : i \in 1..n} : \A i \in 1..n : s[i] <= x
    IN  [i \in 1..n |-> IF top > 0 THEN Frac(MaxOf(s[i], 0), top) ELSE Frac(0, 1)]

\* min(float(val) / max(float(velocity.max()), 1.0), 1.0)
VelocityScore(val, top) ==
    LET scaled == IF top.num >= top.den
                  THEN Frac(val.num * top.den, val.den * top.num) ELSE val
    IN  IF scaled.num > scaled.den THEN Frac(1, 1) ELSE scaled

Named(kind, entries) ==
    [p \in 1..Len(entries) |->
        [name |-> <<kind, entries[p].key>>, score |-> entries[p].score]]

\* variant: every cluster is kept
KeepAllClusters(clusters) == SortDescending(clusters)

\* sorted(clusters, key=score, reverse=True)[:5]
KeepTopClusters(clusters) == HeadOf(SortDescending(clusters), top_clusters)

build_cluster_insights(df) ==
    IF Len(df.rows) = 0 THEN <<>>
    ELSE IF "fraud_score" \notin DOMAIN df.rows[1] THEN <<>>
    ELSE
    LET n == Len(df.rows)
        risk_norm == RiskNorm(df)
        cat_scores ==
            IF "category" \in DOMAIN df.rows[1]
            THEN HeadOf(SortDescending(GroupMeans(df, "category", risk_norm)), category_clusters)
            ELSE <<>>
        country_scores ==
            IF "country" \in DOMAIN df.rows[1]
            THEN HeadOf(SortDescending(GroupMeans(df, "country", risk_norm)), geo_clusters)
            ELSE <<>>
        velocity ==
            IF "user_tx_velocity_per_day" \in DOMAIN df.rows[1]
            THEN HeadOf(SortDescending(GroupMeans(df, "user_id",
                            [i \in 1..n |-> df.rows[i].user_tx_velocity_per_day])),
                        velocity_clusters)
            ELSE <<>>
        bursts == [p \in 1..Len(velocity) |->
                      [key |-> velocity[p].key,
                       score |-> VelocityScore(velocity[p].score, velocity[1].score)]]
    IN  KeepTopClusters(Named("Category spike", cat_scores)
                        \o Named("Geo hotspot", country_scores)
                        \o Named("Velocity burst", bursts))

---------------------------------------------------------------------------
(* src/insights.py: compute_basic_insights.                                 *)

\* df.groupby(col)["amount"].sum(): one entry per key, in key order
GroupSums(df, col) ==
    LET n == Len(df.rows)
        keys == {df.rows[i][col] : i \in {j \in 1..n : col = "user_id" \/ NotNa(df.rows[j][col])}}
        ranks == SortedSeq({KeyRank(col, k) : k \in keys})
    IN  [p \in 1..Len(ranks) |->
            LET key == CHOOSE k \in keys : KeyRank(col, k) = ranks[p]
                members == {i \in 1..n : df.rows[i][col] = key}
            IN  [key |-> key,
                 score |-> Frac(SumOver([i \in members |-> df.rows[i].amount], members), 1),
                 count |-> Cardinality(members)]]

\* months since year 0 of a timestamp
MonthIndex(ts) == CivilYear(ts.n) * 12 + CivilMonth(ts.n) - 1

\* strftime("%Y-%m")
MonthLabel(m) ==
    PadLeft(NatDigits(m \div 12), 4) \o <<"-">> \o PadLeft(NatDigits((m % 12) + 1), 2)

\* resample("M").sum(): every month from the first to the last, empty ones 0
MonthlyTrends(df) ==
    LET dated == {i \in 1..Len(df.rows) : df.rows[i].timestamp.k = "ts"}
        months == {MonthIndex(df.rows[i].timestamp) : i \in dated}
    IN  IF dated = {} THEN <<>>
        ELSE LET lo == CHOOSE m \in months : \A x \in months : m <= x
                 hi == CHOOSE m \in months : \A x \in months : x <= m
             IN  [p \in 1..(hi - lo + 1) |->
                    LET in == {i \in dated : MonthIndex(df.rows[i].timestamp) = lo + p - 1}
                    IN  [month |-> MonthLabel(lo + p - 1),
                         total_spend |-> SumOver([i \in in |-> df.rows[i].amount], in)]]

compute_basic_insights(df) ==
    IF Len(df.rows) = 0
    THEN [total_spend |-> 0, top_categories |-> <<>>, monthly_trends |-> <<>>,
          user_summaries |-> <<>>]
    ELSE LET top_cats == SortDescending(GroupSums(df, "category"))
             per_user == GroupSums(df, "user_id")
         IN  [total_spend |-> SumOver([i \in 1..Len(df.rows) |-> df.rows[i].amount],
                                      1..Len(df.rows)),
              top_categories |->
                  [p \in 1..Len(top_cats) |->
                      [category |-> top_cats[p].key.s, total_spend |-> top_cats[p].score.num]],
              monthly_trends |-> MonthlyTrends(df),
              user_summaries |->
                  [p \in 1..Len(per_user) |->
                      [user_id |-> NatDigits(per_user[p].key),
                       total_spend |-> per_user[p].score.num,
                       avg_transaction |-> Frac(per_user[p].score.num, per_user[p].count),
                       tx_count |-> per_user[p].count]]]

---------------------------------------------------------------------------
(* The columns the stages assign to their working tables.                  *)

\* df[TIMESTAMP_COLUMN] = pd.to_datetime(df[TIMESTAMP_COLUMN], errors="coerce")
TimestampsCoerced(df) ==
    [df EXCEPT !.rows = [i \in 1..Len(df.rows) |->
                            [df.rows[i] EXCEPT !.timestamp = ToDatetimeCell(@)]]]

\* df["risk_norm"] = ...
WithRiskNorm(df) ==
    IF Len(df.rows) = 0 THEN df
    ELSE IF "fraud_score" \notin DOMAIN df.rows[1] THEN df
    ELSE [df EXCEPT !.rows = [i \in 1..Len(df.rows) |->
                                 df.rows[i] @@ [c \in {"risk_norm"} |-> RiskNorm(df)[i]]]]

---------------------------------------------------------------------------
(* The canonical tables the model enumerates.                              *)

\* most rows of a table whose rows vary freely
MaxTx == 3
\* most rows of a one-user table of consecutive days
MaxHistory == 11
\* most one-transaction days, and most transactions of the busy day, of a
\* table made of quiet days and one busy day
MaxQuietDays == 46
MaxBurst == 6

Tx(user, day, amount, category, country) ==
    [user_id |-> user, timestamp |-> Ts(day, 0), amount |-> amount,
     category |-> Str(<<category>>), merchant |-> Str(<<"m">>),
     country |-> Str(<<country>>), is_fraud |-> NaN]

Table(rows) == [rows |-> rows, has_label |-> FALSE]

\* rows that vary in user, day and amount
OrderRows == {Tx(u, d, a, "a", "IN") : u \in {1, 2}, d \in {0, 1}, a \in {-5, 10}}
\* rows of one user that vary in day, amount and category
CategoryRows == {Tx(1, d, a, c, "IN") : d \in {0, 1}, a \in {-5, 10}, c \in {"a", "b"}}
\* rows that vary in user, day and country
CountryRows == {Tx(u, d, 10, "a", c) : u \in {1, 2}, d \in {0, 1}, c \in {"IN", "US"}}
\* rows of one user that carry the dataset's own is_fraud label
LabelRows == {[Tx(1, d, 10, "a", "IN") EXCEPT !.is_fraud = l] : d \in {0, 1}, l \in {Num(1, 0), Num(0, 0), NaN}}
LabelledTables == {[rows |-> t, has_label |-> TRUE] : t \in UNION {[1..k -> LabelRows] : k \in 1..MaxTx}}

\* rows of one user whose country cell may be null
NullCountryRows ==
    {[Tx(1, d, 10, "a", "IN") EXCEPT !.country = c] : d \in {0, 1}, c \in {NaN, Str(<<"IN">>), Str(<<"US">>)}}
NullCountryTables == {Table(t) : t \in UNION {[1..k -> NullCountryRows] : k \in 1..MaxTx}}

FreeTables ==
    UNION {[1..k -> OrderRows] \cup [1..k -> CategoryRows] \cup [1..k -> CountryRows] : k \in 0..MaxTx}

\* one user, one transaction a day
HistoryTable(amounts) ==
    Table([i \in 1..Len(amounts) |-> Tx(1, i, amounts[i], "a", "IN")])
\* histories whose amount changes at most once
HistoryTables ==
    {HistoryTable([i \in 1..k |-> IF i <= split THEN a ELSE b]) :
        k \in 1..MaxHistory, split \in 0..MaxHistory, a \in {100, 7}, b \in {100, 7}}

\* user 1 on `quiet` separate days, user 2 with `burst` transactions on one day
VelocityTable(quiet, burst) ==
    Table([i \in 1..(quiet + burst) |->
              IF i <= quiet THEN Tx(1, i, 10, "a", "IN") ELSE Tx(2, 0, 10, "a", "IN")])

\* the bundles a process may have loaded
Bundles ==
    { None,
      [engineered_feature_names |-> <<"user_tx_velocity_per_day", "merchant_risk">>,
       classifier |-> [feature |-> 1, cut |-> 1, low |-> Num(6, 1), high |-> Num(9, 1)]] }

---------------------------------------------------------------------------
(* The pipeline run on a canonical table: engineer, then score.            *)

InitFeat ==
    /\ pc = "canonical"
    /\ model_bundle \in Bundles
    /\ \/ \E t \in FreeTables : tx_in = Table(t)
       \/ tx_in \in LabelledTables
       \/ tx_in \in NullCountryTables
       \/ tx_in \in HistoryTables
       \/ \E q \in 0..MaxQuietDays, b \in 0..MaxBurst : tx_in = VelocityTable(q, b)
    /\ df_raw = Unset /\ df_canon = Unset /\ df_again = Unset
    /\ df_feat = Unset /\ df_scored = Unset
    /\ fraud_table = Unset /\ cluster_insights = Unset /\ state = Unset /\ req = Unset
    /\ insights = Unset /\ disk = Unset /\ resp = Unset /\ frames = Unset

Engineer ==
    /\ pc = "canonical"
    /\ df_feat' = engineer_transaction_features(tx_in)
    /\ tx_in' = CallerSees(tx_in, Copy(tx_in), TimestampsCoerced(tx_in))
    /\ pc' = "engineered"
    /\ UNCHANGED <<frames, resp, insights, disk, fraud_table, cluster_insights, state, req, model_bundle, df_raw, df_canon, df_again, df_scored>>

\* compute_basic_insights on the feature table, before it is scored
ComputeInsights ==
    /\ pc = "engineered" /\ insights = Unset
    /\ insights' = compute_basic_insights(df_feat)
    /\ df_feat' = CallerSees(df_feat, Copy(df_feat), TimestampsCoerced(df_feat))
    /\ UNCHANGED <<frames, resp, disk, pc, fraud_table, cluster_insights, state, req, model_bundle,
                   df_raw, df_canon, df_again, tx_in, df_scored>>

Score ==
    /\ pc = "engineered"
    /\ df_scored' = _score_transactions_with_model(df_feat, model_bundle)
    /\ df_feat' = CallerSees(df_feat, Copy(df_feat),
                             _score_transactions_with_model(df_feat, model_bundle))
    /\ pc' = "scored"
    /\ UNCHANGED <<frames, resp, insights, disk, fraud_table, cluster_insights, state, req, model_bundle, df_raw, df_canon, df_again, tx_in>>

NextFeat == Engineer \/ Score

SpecFeat == InitFeat /\ [][NextFeat]_vars

---------------------------------------------------------------------------
(* The aggregates of a scored table.                                       *)

\* most rows of a scored table given to the aggregators
MaxScored == 3

ScoredTx(user, category, country, velocity, score, rule, model) ==
    [user_id |-> user, timestamp |-> Ts(59, 0), amount |-> 10,
     category |-> Str(<<category>>), merchant |-> Str(<<"m">>),
     country |-> Str(<<country>>),
     user_tx_velocity_per_day |-> Float(velocity), velocity_flag |-> FALSE,
     rule_based_fraud_flag |-> rule, fraud_score |-> score, model_fraud_flag |-> model]

\* rows that vary in score and in the two flags
FraudRows ==
    {ScoredTx(1, "a", "IN", 1, s, f[1], f[2]) :
        s \in {Num(2, 1), Num(5, 1), Num(6, 1), Num(9, 1)},
        f \in {<<FALSE, FALSE>>, <<TRUE, FALSE>>, <<FALSE, TRUE>>}}

ScoredTables == {Table(t) : t \in UNION {[1..k -> FraudRows] : k \in 0..MaxScored}}

MaxClusterRows == 4

\* the keys of the rows of a table, by position: all different, or repeating
ClusterKeys ==
    { <<[category |-> "a", country |-> "IN", user |-> 1],
        [category |-> "b", country |-> "US", user |-> 2],
        [category |-> "c", country |-> "UK", user |-> 3],
        [category |-> "d", country |-> "IN", user |-> 1],
        [category |-> "e", country |-> "US", user |-> 2]>>,
      <<[category |-> "a", country |-> "IN", user |-> 1],
        [category |-> "a", country |-> "IN", user |-> 1],
        [category |-> "b", country |-> "US", user |-> 1],
        [category |-> "b", country |-> "US", user |-> 2],
        [category |-> "c", country |-> "US", user |-> 2]>> }

\* the velocities of the rows of a table, by position
ClusterVelocities == {<<1, 1, 1, 1, 1>>, <<1, 3, 1, 3, 1>>, <<3, 1, 1, 1, 3>>}

\* scored tables that vary in score over those keys and velocities
ClusterTables ==
    UNION {{Table([i \in 1..k |->
                     ScoredTx(keys[i].user, keys[i].category, keys[i].country,
                              v[i], Num(s[i], 1), FALSE, FALSE)]) :
               keys \in ClusterKeys, s \in [1..k -> {0, 3, 9}], v \in ClusterVelocities} :
           k \in 0..MaxClusterRows}

InitAgg ==
    /\ pc = "scored"
    /\ df_scored \in ScoredTables \cup ClusterTables
    /\ model_bundle = None
    /\ df_raw = Unset /\ df_canon = Unset /\ df_again = Unset
    /\ tx_in = Unset /\ df_feat = Unset
    /\ fraud_table = Unset /\ cluster_insights = Unset /\ state = Unset /\ req = Unset
    /\ insights = Unset /\ disk = Unset /\ resp = Unset /\ frames = Unset

BuildFraudTable ==
    /\ pc = "scored"
    /\ fraud_table' = build_fraud_table(df_scored)
    /\ pc' = "fraud_table"
    /\ UNCHANGED <<frames, resp, insights, disk, cluster_insights, state, req, model_bundle, df_raw, df_canon, df_again,
                   tx_in, df_feat, df_scored>>

BuildClusterInsights ==
    /\ pc = "fraud_table"
    /\ cluster_insights' = build_cluster_insights(df_scored)
    /\ df_scored' = CallerSees(df_scored, Copy(df_scored), WithRiskNorm(df_scored))
    /\ pc' = "clusters"
    /\ UNCHANGED <<frames, resp, insights, disk, fraud_table, state, req, model_bundle, df_raw, df_canon, df_again,
                   tx_in, df_feat>>

NextAgg == BuildFraudTable \/ BuildClusterInsights

SpecAgg == InitAgg /\ [][NextAgg]_vars

---------------------------------------------------------------------------
(* Claims about the Schema Normalizer.                                     *)

Returned == pc = "normalized" /\ ~df_canon.err
Cells(f, field) == GetCol(f, field).cells
HasAllCanonical(f) == \A k \in 1..Len(REQUIRED_COLUMNS) : HasCol(f, REQUIRED_COLUMNS[k])

\* C1: every row the normalizer returns has a non-null value in each of the
\* six canonical fields, also when an alias column holds null cells.
C1_CanonicalFieldsNonNull ==
    Returned =>
        \A k \in 1..Len(REQUIRED_COLUMNS) :
            /\ HasCol(df_canon, REQUIRED_COLUMNS[k])
            /\ \A r \in 1..df_canon.n : NotNa(Cells(df_canon, REQUIRED_COLUMNS[k])[r])

\* a table is returned whose merchant, copied from an alias column, has a null cell
C1_NullAliasCellReturned ==
    /\ Returned
    /\ HasCol(df_raw, " Vendor ")
    /\ \E r \in 1..df_canon.n : IsNull(Cells(df_canon, "merchant")[r])

\* C2: a parsed table that is empty after dropping the all-null rows and the
\* all-null columns makes the normalizer fail instead of returning a table.
C2_EmptyTableRaises ==
    (pc = "normalized" /\ IsEmpty(Trimmed(df_raw))) => df_canon.err

\* a file of a header line alone: a table with no row is returned
C2_EmptyTableReturned ==
    /\ pc = "normalized"
    /\ df_raw.n = 0 /\ Len(df_raw.cols) >= 1
    /\ IsEmpty(Trimmed(df_raw))
    /\ ~df_canon.err
    /\ df_canon.n = 0
    /\ HasAllCanonical(df_canon)

\* C3: a parsed table that is not empty after trimming is always normalized
\* without an error, to a table of as many rows holding the six canonical columns.
C3_NonEmptyTableNormalizes ==
    (pc = "normalized" /\ ~IsEmpty(Trimmed(df_raw))) =>
        /\ ~df_canon.err
        /\ df_canon.n = Trimmed(df_raw).n
        /\ HasAllCanonical(df_canon)

\* a table with the headers "Amount" and "amount", rows in both, is refused
C3_RepeatedLabelRefused ==
    /\ pc = "normalized"
    /\ ~IsEmpty(Trimmed(df_raw))
    /\ HasCol(df_raw, "Amount") /\ HasCol(df_raw, "amount")
    /\ df_canon.err

\* C4: column inference applied to its own output returns that table: no row
\* added or removed, every cell of the six canonical columns unchanged.
C4_InferColumnsIdempotent ==
    pc = "renormalized" =>
        /\ ~df_again.err
        /\ df_again.n = df_canon.n
        /\ \A k \in 1..Len(REQUIRED_COLUMNS) :
              /\ HasCol(df_again, REQUIRED_COLUMNS[k])
              /\ Cells(df_again, REQUIRED_COLUMNS[k]) = Cells(df_canon, REQUIRED_COLUMNS[k])
        /\ df_again = df_canon

\* a second run on a returned table with a negative amount, a defaulted
\* timestamp and a null merchant cell
C4_Witness ==
    /\ pc = "renormalized"
    /\ df_canon.n >= 2
    /\ \E r \in 1..df_canon.n : Cells(df_canon, "amount")[r].n < 0
    /\ \E r \in 1..df_canon.n : Cells(df_canon, "timestamp")[r] \in Todays
    /\ \E r \in 1..df_canon.n : IsNull(Cells(df_canon, "merchant")[r])

\* C5: amount text loses its thousands separators and the signs of the rupee,
\* dollar, euro and pound, and a number in parentheses is negative: the four
\* example strings become -1234.5, 1234.5, 1234.5, 1234.5; a text that still
\* is no number becomes 0.0, so the canonical amount is never null.
AmountText == df_raw.cols[1].cells[1].s
AmountOut == Cells(df_canon, "amount")[1]
Separators == {",", "₹", "$", "€", "£"}
Without(s, chars) == SelectSeq(s, LAMBDA c : c \notin chars)
IsNumberText(s) == s # <<>> /\ AllDigits(s)
C5_AmountParsing ==
    pc = "normalized" =>
        /\ ~df_canon.err /\ df_canon.n = 1
        /\ AmountOut.k = "num"
        /\ AmountText = <<"(", "1", ",", "2", "3", "4", ".", "5", "0", ")">> => AmountOut = Num(-12345, 1)
        /\ AmountText = <<"$", "1", "2", "3", "4", ".", "5", "0">> => AmountOut = Num(12345, 1)
        /\ AmountText = <<"₹", "1", "2", "3", "4", ".", "5", "0">> => AmountOut = Num(12345, 1)
        /\ AmountText = <<"1", "2", "3", "4", ".", "5", "0">> => AmountOut = Num(12345, 1)
        /\ IsNumberText(Without(AmountText, Separators)) =>
              AmountOut = Num(DigitsVal(Without(AmountText, Separators)), 0)
        /\ ( /\ Len(AmountText) >= 3
             /\ Head(AmountText) = "(" /\ AmountText[Len(AmountText)] = ")"
             /\ IsNumberText(SubSeq(AmountText, 2, Len(AmountText) - 1)) ) =>
              AmountOut = Num(-DigitsVal(SubSeq(AmountText, 2, Len(AmountText) - 1)), 0)
        /\ (\E i \in 1..Len(AmountText) : AmountText[i] = "x") => AmountOut = Num(0, 0)

\* the rupee example has been normalized
C5_Witness ==
    /\ pc = "normalized"
    /\ AmountText = <<"₹", "1", "2", "3", "4", ".", "5", "0">>
    /\ AmountOut = Num(12345, 1)

---------------------------------------------------------------------------
(* Claims about the Feature Engineer and the fallback score.               *)

Engineered == pc \in {"engineered", "scored"}
SameUser(rows, i, j) == rows[i].user_id = rows[j].user_id
SameCategory(rows, i, j) == SameUser(rows, i, j) /\ rows[i].category = rows[j].category
Latest(S) == CHOOSE j \in S : \A l \in S : l <= j

\* C6: on every canonical table, each output row of the feature engineer has
\* a cumulative spend, a daily velocity and a rule flag that are not null,
\* the rows whose rolling statistics are null included.
C6_DerivedFieldsNonNull ==
    Engineered =>
        \A i \in 1..Len(df_feat.rows) :
            /\ ~df_feat.rows[i].user_cumulative_spend.null
            /\ ~df_feat.rows[i].user_tx_velocity_per_day.null
            /\ df_feat.rows[i].rule_based_fraud_flag \in BOOLEAN

\* a user's first two rows have no rolling statistics, the third has
C6_Witness ==
    /\ pc = "engineered"
    /\ Len(df_feat.rows) >= 3
    /\ \A i \in 1..2 : /\ df_feat.rows[i].rolling_mean_amount.null
                      /\ df_feat.rows[i].rolling_std_amount.null
                      /\ ~df_feat.rows[i].user_cumulative_spend.null
    /\ ~df_feat.rows[3].rolling_mean_amount.null

\* C7: in the output each user's rows are in ascending timestamp order; the
\* cumulative spend of a row is its amount plus the cumulative spend of the
\* user's row before it, so the last one is the sum of the user's amounts in
\* the input; it never decreases when no amount is negative.  The same holds
\* of the category spend within a user and category.
C7_CumulativeSpendRunningSum ==
    pc = "engineered" =>
        LET rows == df_feat.rows
            n == Len(rows)
            before(i) == {j \in 1..(i - 1) : SameUser(rows, i, j)}
            beforeCat(i) == {j \in 1..(i - 1) : SameCategory(rows, i, j)}
            spend(i) == rows[i].user_cumulative_spend
            catSpend(i) == rows[i].user_category_spend
            input == [j \in 1..Len(tx_in.rows) |-> tx_in.rows[j].amount]
        IN  /\ n = Len(tx_in.rows)
            /\ \A i, j \in 1..n :
                  (i < j /\ SameUser(rows, i, j)) => ~TsLess(rows[j].timestamp, rows[i].timestamp)
            /\ \A i \in 1..n :
                  /\ ~spend(i).null /\ spend(i).den = 1
                  /\ spend(i).num = rows[i].amount
                        + (IF before(i) = {} THEN 0 ELSE spend(Latest(before(i))).num)
                  /\ ~catSpend(i).null /\ catSpend(i).den = 1
                  /\ catSpend(i).num = rows[i].amount
                        + (IF beforeCat(i) = {} THEN 0 ELSE catSpend(Latest(beforeCat(i))).num)
            /\ \A i \in 1..n :
                  (\A j \in (i + 1)..n : ~SameUser(rows, i, j)) =>
                      spend(i).num = SumOver(input, {j \in 1..Len(tx_in.rows) :
                                                        tx_in.rows[j].user_id = rows[i].user_id})
            /\ (\A i \in 1..n : rows[i].amount >= 0) =>
                  \A i, j \in 1..n :
                      /\ (i < j /\ SameUser(rows, i, j)) => spend(i).num <= spend(j).num
                      /\ (i < j /\ SameCategory(rows, i, j)) => catSpend(i).num <= catSpend(j).num

\* a table uploaded out of time order, with no negative amount, and a user
\* who spends in two categories
C7_Witness ==
    /\ pc = "engineered"
    /\ \E i, j \in 1..Len(tx_in.rows) :
          /\ i < j /\ SameUser(tx_in.rows, i, j)
          /\ TsLess(tx_in.rows[j].timestamp, tx_in.rows[i].timestamp)
          /\ ~SameCategory(tx_in.rows, i, j)
    /\ \A i \in 1..Len(tx_in.rows) : tx_in.rows[i].amount > 0

SameDay(rows, i) ==
    Cardinality({j \in 1..Len(rows) :
                    SameUser(rows, i, j) /\ rows[j].timestamp.n = rows[i].timestamp.n})

\* C8: the velocity flag is never true on a row whose user has 5 or fewer
\* transactions on that row's date, whatever the 90th percentile is; so no
\* row is flagged when no user has more than 4 transactions on one date.
C8_VelocityFloor ==
    pc = "engineered" =>
        LET rows == df_feat.rows
        IN  /\ \A i \in 1..Len(rows) : rows[i].velocity_flag => SameDay(rows, i) > 5
            /\ (\A i \in 1..Len(rows) : SameDay(rows, i) <= 4) =>
                  \A i \in 1..Len(rows) : ~rows[i].velocity_flag

\* a row above the 90th percentile of the table whose day holds no more
\* than 5 transactions, and is not flagged
C8_Witness ==
    /\ pc = "engineered"
    /\ \E i \in 1..Len(df_feat.rows) :
          /\ SameDay(df_feat.rows, i) <= 5
          /\ 10 * SameDay(df_feat.rows, i) >
                QuantileTenths([j \in 1..Len(df_feat.rows) |-> SameDay(df_feat.rows, j)]).num
          /\ ~df_feat.rows[i].velocity_flag

\* C9: for the k-th row of a user in (user, timestamp) order the rolling mean
\* and deviation are null when k < 3; otherwise they are the mean and the
\* standard deviation of the user's last min(k, 10) amounts, the current one
\* included.  For one user with amounts 100, 100, 100 the third row is the
\* first with a mean (100) and a deviation (0); its z-score is 0 and it is no
\* anomaly.
C9_RollingStatistics ==
    pc = "engineered" =>
        LET rows == df_feat.rows
            n == Len(rows)
            amount == [j \in 1..n |-> rows[j].amount]
            square == [j \in 1..n |-> rows[j].amount * rows[j].amount]
            upTo(i) == {j \in 1..i : SameUser(rows, i, j)}
            k(i) == Cardinality(upTo(i))
            last(i) == {j \in upTo(i) : Cardinality({l \in upTo(i) : l >= j}) <= 10}
            m(i) == Cardinality(last(i))
            mean(i) == rows[i].rolling_mean_amount
            std(i) == rows[i].rolling_std_amount
        IN  /\ \A i \in 1..n :
                  IF k(i) < 3 THEN mean(i).null /\ std(i).null
                  ELSE /\ m(i) = (IF k(i) < 10 THEN k(i) ELSE 10)
                       /\ ~mean(i).null /\ mean(i).den > 0
                       /\ mean(i).num * m(i) = SumOver(amount, last(i)) * mean(i).den
                       /\ ~std(i).null /\ std(i).w > 0 /\ std(i).v >= 0
                       /\ std(i).v * (m(i) * (m(i) - 1)) =
                             (m(i) * SumOver(square, last(i))
                                - SumOver(amount, last(i)) * SumOver(amount, last(i))) * std(i).w
            /\ tx_in = HistoryTable(<<100, 100, 100>>) =>
                  /\ n = 3
                  /\ \A i \in 1..2 : mean(i).null /\ std(i).null
                  /\ ~mean(3).null /\ mean(3).num = 100 * mean(3).den
                  /\ ~std(3).null /\ std(3).v = 0
                  /\ ZIsZero(rows[3].zscore_amount)
                  /\ ~rows[3].is_amount_anomaly

\* a user's eleventh row, whose window leaves the first amount out and holds
\* different amounts
C9_Witness ==
    /\ pc = "engineered"
    /\ Len(df_feat.rows) >= 11
    /\ \A i \in 1..11 : df_feat.rows[i].user_id = df_feat.rows[1].user_id
    /\ df_feat.rows[1].amount # df_feat.rows[11].amount
    /\ ~df_feat.rows[11].rolling_std_amount.null
    /\ df_feat.rows[11].rolling_std_amount.v > 0
    /\ df_feat.rows[10].rolling_mean_amount.num * df_feat.rows[11].rolling_mean_amount.den
          # df_feat.rows[11].rolling_mean_amount.num * df_feat.rows[10].rolling_mean_amount.den

\* C10: without a model bundle the fraud score of a row is exactly 1.0 when
\* its rule flag is true and exactly 0.0 when it is false, the model flag is
\* the rule flag, and the rows are those of the input table in its order.
C10_NoModelFallback ==
    (pc = "scored" /\ model_bundle = None) =>
        /\ Len(df_scored.rows) = Len(df_feat.rows)
        /\ \A i \in 1..Len(df_feat.rows) :
              LET in == df_feat.rows[i]
                  out == df_scored.rows[i]
              IN  /\ out.fraud_score = (IF in.rule_based_fraud_flag THEN Num(1, 0) ELSE Num(0, 0))
                  /\ out.model_fraud_flag = in.rule_based_fraud_flag
                  /\ [f \in DOMAIN in |-> out[f]] = in

\* two rows with rule flags true, false are scored 1.0, 0.0
C10_Witness ==
    /\ pc = "scored" /\ model_bundle = None
    /\ Len(df_scored.rows) = 2
    /\ df_scored.rows[1].rule_based_fraud_flag /\ df_scored.rows[1].fraud_score = Num(1, 0)
    /\ ~df_scored.rows[2].rule_based_fraud_flag /\ df_scored.rows[2].fraud_score = Num(0, 0)

---------------------------------------------------------------------------
(* The pipeline run under a bundle trained on other columns than the       *)
(* feature table has.                                                      *)

\* bundles whose classifier splits on a column the feature table lacks, or on
\* one whose first cells are null
StaleBundles ==
    {[engineered_feature_names |-> <<"user_tx_velocity_per_day", name>>,
      classifier |-> [feature |-> 2, cut |-> cut, low |-> Num(1, 1), high |-> Num(9, 1)]] :
        name \in {"merchant_risk", "rolling_mean_amount"}, cut \in {-1, 0}}

InitStale ==
    /\ pc = "canonical"
    /\ model_bundle \in StaleBundles
    /\ \/ \E t \in FreeTables : tx_in = Table(t)
       \/ tx_in \in HistoryTables
    /\ df_raw = Unset /\ df_canon = Unset /\ df_again = Unset
    /\ df_feat = Unset /\ df_scored = Unset
    /\ fraud_table = Unset /\ cluster_insights = Unset /\ state = Unset /\ req = Unset
    /\ insights = Unset /\ disk = Unset /\ resp = Unset /\ frames = Unset

SpecStale == InitStale /\ [][NextFeat]_vars

---------------------------------------------------------------------------
(* The stages called one after another, as upload_transactions calls them, *)
(* each on the table the stage before it returned.                         *)

InitRun ==
    /\ pc = "canonical"
    /\ model_bundle \in Bundles
    /\ \/ \E t \in FreeTables : tx_in = Table(t)
       \/ tx_in \in LabelledTables
    /\ df_raw = Unset /\ df_canon = Unset /\ df_again = Unset
    /\ df_feat = Unset /\ df_scored = Unset
    /\ fraud_table = Unset /\ cluster_insights = Unset /\ state = Unset /\ req = Unset
    /\ insights = Unset /\ disk = Unset /\ resp = Unset /\ frames = Unset

InitStages == InitCoerce \/ InitRun

\* the table is scored once its insights are computed
ScoreFeatures == insights # Unset /\ Score

NextStages ==
    \/ Normalize
    \/ Renormalize
    \/ Engineer
    \/ ComputeInsights
    \/ ScoreFeatures
    \/ BuildFraudTable
    \/ BuildClusterInsights

SpecStages == InitStages /\ [][NextStages]_vars

---------------------------------------------------------------------------
(* src/app.py: the process.  on_startup runs once, then requests arrive.   *)
(* upload_transactions awaits the file's bytes and runs the rest without   *)
(* another await; dashboard_data and ask_ai never await.                   *)

Some(x) == [none |-> FALSE, value |-> x]
Nothing == [none |-> TRUE, value |-> <<>>]

\* AppState.__init__, model_bundle apart
NewAppState ==
    [raw_df |-> Nothing, df_with_features |-> Nothing, insights |-> Nothing,
     fraud_table |-> Nothing, cluster_insights |-> Nothing, user_profile |-> Nothing,
     sample_rows |-> Nothing, last_upload_path |-> Nothing]

\* a file is what load_transactions_excel makes of it: an exception with its
\* message, or a table; and the stage after the load that raises on that
\* table, if one does
NoStage == ""
Stages == {"features", "scoring", "aggregation"}
BadFile == [readable |-> FALSE, cause |-> "no table parsed", table |-> Table(<<>>), raises |-> NoStage]
GoodFile(t) == [readable |-> TRUE, cause |-> "", table |-> t, raises |-> NoStage]
\* a table the loader returns and a stage refuses
RefusedFile(stage) == [GoodFile(Table(<<Tx(3, 0, 10, "c", "UK")>>)) EXCEPT !.raises = stage]

TravelFile == GoodFile(Table(<<Tx(1, 0, 10, "a", "IN"), Tx(1, 1, 10, "a", "US")>>))
HomeFile == GoodFile(Table(<<Tx(2, 0, -5, "b", "IN")>>))

\* the suffixes upload_transactions accepts, in the order dashboard_data looks
\* for a file of an earlier upload
Suffixes == <<".xlsx", ".csv">>

\* the upload requests a client sends
Uploads ==
    { [contents |-> BadFile, suffix |-> ".csv", form |-> <<"", "", "">>],
      [contents |-> TravelFile, suffix |-> ".xlsx", form |-> <<"a", "30", "bank">>],
      [contents |-> TravelFile, suffix |-> ".csv", form |-> <<"a", "30", "bank">>],
      [contents |-> HomeFile, suffix |-> ".csv", form |-> <<"b", "", "">>],
      [contents |-> HomeFile, suffix |-> ".txt", form |-> <<"b", "", "">>] }
    \cup {[contents |-> RefusedFile(stage), suffix |-> ".csv", form |-> <<"c", "", "">>] :
             stage \in Stages}

Questions == {"", "why"}

\* what the language model may answer
Answers == {"answer", "unreachable"}

MaxInFlight == 2

\* variant: a run scores without the bundle
RunPipelineUnscored(loaded, bundle) ==
    LET df_with_features == CHOOSE t \in {engineer_transaction_features(loaded)} : TRUE
        scored == CHOOSE t \in {_score_transactions_with_model(df_with_features, None)} : TRUE
    IN  [raw_df |-> loaded,
         df_with_features |-> scored,
         insights |-> compute_basic_insights(df_with_features),
         fraud_table |-> build_fraud_table(scored),
         cluster_insights |-> build_cluster_insights(scored)]

\* the five results of one run of the stages on a loaded table
RunPipeline(loaded, bundle) ==
    LET df_with_features == CHOOSE t \in {engineer_transaction_features(loaded)} : TRUE
        scored == CHOOSE t \in {_score_transactions_with_model(df_with_features, bundle)} : TRUE
    IN  [raw_df |-> loaded,
         df_with_features |-> scored,
         insights |-> compute_basic_insights(df_with_features),
         fraud_table |-> build_fraud_table(scored),
         cluster_insights |-> build_cluster_insights(scored)]

\* the first five raw rows as records, timestamps in ISO format
SampleRows(loaded) ==
    [i \in 1..(IF Len(loaded.rows) < 5 THEN Len(loaded.rows) ELSE 5) |->
        [loaded.rows[i] EXCEPT !.timestamp =
            IF @.k = "ts" THEN Str(IsoFormat(@)) ELSE @]]

\* variant: the cases are consumed as they are read
CasesPopped(cases) == IF Len(cases) = 0 THEN cases ELSE Tail(cases)

\* _format_context takes a slice of the cases and reads each through get()
CasesAfterFormat(cases) == cases

InitApp ==
    /\ pc = "boot"
    /\ model_bundle = None
    /\ state = NewAppState
    /\ req = {}
    /\ disk \in {[x \in {".xlsx", ".csv"} |-> Nothing],
                 [x \in {".xlsx", ".csv"} |-> IF x = ".csv" THEN Some(HomeFile) ELSE Nothing]}
    /\ resp = Unset
    /\ df_raw = Unset /\ df_canon = Unset /\ df_again = Unset
    /\ tx_in = Unset /\ df_feat = Unset /\ df_scored = Unset
    /\ fraud_table = Unset /\ cluster_insights = Unset /\ insights = Unset
    /\ frames = Unset

\* the model file is absent or unloadable (None), or it loads
on_startup ==
    /\ pc = "boot"
    /\ model_bundle' \in Bundles
    /\ pc' = "serving"
    /\ UNCHANGED <<frames, resp, insights, disk, state, req, df_raw, df_canon, df_again, tx_in,
                   df_feat, df_scored, fraud_table, cluster_insights>>

\* upload_transactions up to its await: the suffix is checked, the bytes read
upload_read(u) ==
    /\ pc = "serving"
    /\ IF u.suffix \in {".xlsx", ".xls", ".csv"}
       THEN /\ Cardinality(req) < MaxInFlight
            /\ req' = req \cup {u}
            /\ UNCHANGED resp
       ELSE /\ resp' = [handler |-> "upload", status |-> 400, body |-> "extension"]
            /\ UNCHANGED req
    /\ UNCHANGED <<frames, insights, disk, state, pc, model_bundle, df_raw, df_canon, df_again,
                   tx_in, df_feat, df_scored, fraud_table, cluster_insights>>

\* variant: the loaded table is stored before the stages run on it
upload_finish_storing_first(u) ==
    /\ pc = "serving"
    /\ u \in req
    /\ req' = req \ {u}
    /\ disk' = [disk EXCEPT ![u.suffix] = Some(u.contents)]
    /\ IF ~u.contents.readable
       THEN /\ resp' = [handler |-> "upload", status |-> 400, body |-> u.contents.cause]
            /\ UNCHANGED state
       ELSE IF u.contents.raises # NoStage
       THEN /\ resp' = [handler |-> "upload", status |-> 500, body |-> "Internal Server Error"]
            /\ state' = [state EXCEPT !.raw_df = Some(u.contents.table)]
       ELSE \E out \in {RunPipeline(u.contents.table, model_bundle)} :
                /\ state' = [raw_df |-> Some(out.raw_df),
                             df_with_features |-> Some(out.df_with_features),
                             insights |-> Some(out.insights),
                             fraud_table |-> Some(out.fraud_table),
                             cluster_insights |-> Some(out.cluster_insights),
                             user_profile |-> Some(u.form),
                             sample_rows |-> Some(SampleRows(out.raw_df)),
                             last_upload_path |-> Some(u.suffix)]
                /\ resp' = [handler |-> "upload", status |-> 200, body |-> "ok"]
    /\ UNCHANGED <<frames, insights, pc, model_bundle, df_raw, df_canon, df_again, tx_in, df_feat,
                   df_scored, fraud_table, cluster_insights>>

\* upload_transactions after its await: write, load, run, assign, respond
upload_finish(u) ==
    /\ pc = "serving"
    /\ u \in req
    /\ req' = req \ {u}
    /\ disk' = [disk EXCEPT ![u.suffix] = Some(u.contents)]
    /\ IF ~u.contents.readable
       THEN /\ resp' = [handler |-> "upload", status |-> 400, body |-> u.contents.cause]
            /\ UNCHANGED state
       ELSE IF u.contents.raises # NoStage
       THEN /\ resp' = [handler |-> "upload", status |-> 500, body |-> "Internal Server Error"]
            /\ UNCHANGED state
       ELSE \E out \in {RunPipeline(u.contents.table, model_bundle)} :
                /\ state' = [raw_df |-> Some(out.raw_df),
                             df_with_features |-> Some(out.df_with_features),
                             insights |-> Some(out.insights),
                             fraud_table |-> Some(out.fraud_table),
                             cluster_insights |-> Some(out.cluster_insights),
                             user_profile |-> Some(u.form),
                             sample_rows |-> Some(SampleRows(out.raw_df)),
                             last_upload_path |-> Some(u.suffix)]
                /\ resp' = [handler |-> "upload", status |-> 200, body |-> "ok"]
    /\ UNCHANGED <<frames, insights, pc, model_bundle, df_raw, df_canon, df_again, tx_in, df_feat,
                   df_scored, fraud_table, cluster_insights>>

\* variant: the rehydration ends once the insights are stored
RehydratedToInsights ==
    IF ~(state.df_with_features.none \/ state.insights.none) THEN Some(state)
    ELSE IF ~disk[".csv"].none /\ disk[".csv"].value.readable /\ disk[".csv"].value.raises = NoStage
    THEN LET out == CHOOSE o \in {RunPipeline(disk[".csv"].value.table, model_bundle)} : TRUE
         IN  Some([state EXCEPT
                      !.raw_df = Some(out.raw_df),
                      !.df_with_features = Some(out.df_with_features),
                      !.insights = Some(out.insights)])
    ELSE Nothing

\* lines 252-261: the path of the last upload, else the first file on disk
RehydratePath ==
    IF ~state.last_upload_path.none THEN state.last_upload_path
    ELSE IF ~disk[Suffixes[1]].none THEN Some(Suffixes[1])
    ELSE IF ~disk[Suffixes[2]].none THEN Some(Suffixes[2])
    ELSE Nothing

\* lines 250-299: the state dashboard_data answers from, or an error
Rehydrated ==
    IF ~(state.df_with_features.none \/ state.insights.none) THEN Some(state)
    ELSE IF RehydratePath.none THEN Nothing
    ELSE IF disk[RehydratePath.value].none THEN Nothing
    ELSE IF ~disk[RehydratePath.value].value.readable THEN Nothing
    ELSE IF disk[RehydratePath.value].value.raises # NoStage THEN Nothing
    ELSE LET out == CHOOSE o \in {RunPipeline(disk[RehydratePath.value].value.table,
                                                  model_bundle)} : TRUE
         IN  Some([state EXCEPT
                      !.raw_df = Some(out.raw_df),
                      !.df_with_features = Some(out.df_with_features),
                      !.insights = Some(out.insights),
                      !.fraud_table = Some(out.fraud_table),
                      !.cluster_insights = Some(out.cluster_insights),
                      !.sample_rows = IF @.none THEN Some(SampleRows(out.raw_df)) ELSE @])

\* state.x or []
OrEmpty(field) == IF field.none THEN <<>> ELSE field.value

dashboard_data ==
    /\ pc = "serving"
    /\ \E now \in {Rehydrated} :
          IF now.none
          THEN /\ resp' = [handler |-> "dashboard_data", status |-> 400, body |-> "no data"]
               /\ UNCHANGED state
          ELSE /\ state' = now.value
               /\ resp' = [handler |-> "dashboard_data", status |-> 200,
                           body |-> [insights |-> now.value.insights.value,
                                     fraud_table |-> OrEmpty(now.value.fraud_table),
                                     cluster_insights |-> OrEmpty(now.value.cluster_insights),
                                     user_profile |-> OrEmpty(now.value.user_profile),
                                     sample_rows |-> OrEmpty(now.value.sample_rows)]]
    /\ UNCHANGED <<frames, insights, disk, req, pc, model_bundle, df_raw, df_canon, df_again, tx_in,
                   df_feat, df_scored, fraud_table, cluster_insights>>

\* ask_ai hands state.insights and state.fraud_table themselves to the
\* analyst, which formats them into the prompt
ask_ai(question) ==
    /\ pc = "serving"
    /\ IF question = ""
       THEN /\ resp' = [handler |-> "ask_ai", status |-> 400, body |-> "question"]
            /\ UNCHANGED state
       ELSE IF state.insights.none \/ state.fraud_table.none
       THEN /\ resp' = [handler |-> "ask_ai", status |-> 400, body |-> "no data"]
            /\ UNCHANGED state
       ELSE /\ \E answer \in Answers :
                  resp' = [handler |-> "ask_ai", status |-> 200, body |-> answer]
            /\ state' = [state EXCEPT
                            !.fraud_table = Some(CasesAfterFormat(@.value))]
    /\ UNCHANGED <<frames, insights, disk, req, pc, model_bundle, df_raw, df_canon, df_again, tx_in,
                   df_feat, df_scored, fraud_table, cluster_insights>>

NextApp ==
    \/ on_startup
    \/ \E u \in Uploads : upload_read(u)
    \/ \E u \in Uploads : upload_finish(u)
    \/ dashboard_data
    \/ \E question \in Questions : ask_ai(question)

SpecApp == InitApp /\ [][NextApp]_vars

---------------------------------------------------------------------------
(* Claims about the aggregates and the scorer.                             *)

FraudTableBuilt == pc \in {"fraud_table", "clusters"}

\* C11: the fraud table holds exactly the rows of the scored table whose rule
\* flag is true, or whose model flag is true, or whose score is above 0.5,
\* each once and with the values of its row, in descending order of score;
\* of three unflagged rows scoring 0.2, 0.6, 0.9 it holds the 0.9 row, then
\* the 0.6 row.
C11_FraudTableFilter ==
    FraudTableBuilt =>
        LET rows == df_scored.rows
            n == Len(fraud_table)
            risky == {i \in 1..Len(rows) :
                        \/ rows[i].rule_based_fraud_flag
                        \/ rows[i].model_fraud_flag
                        \/ rows[i].fraud_score.n * 10 > 5 * Pow10(rows[i].fraud_score.e)}
        IN  /\ {fraud_table[k].id + 1 : k \in 1..n} = risky
            /\ n = Cardinality(risky)
            /\ \A k \in 1..n :
                  LET row == rows[fraud_table[k].id + 1]
                  IN  /\ fraud_table[k].fraud_score = row.fraud_score
                      /\ fraud_table[k].rule_based_fraud_flag = row.rule_based_fraud_flag
                      /\ fraud_table[k].model_fraud_flag = row.model_fraud_flag
                      /\ fraud_table[k].user_id = row.user_id
                      /\ fraud_table[k].amount = row.amount
            /\ \A k, l \in 1..n :
                  k < l => ~NumGreater(fraud_table[l].fraud_score, fraud_table[k].fraud_score)
            /\ ( /\ Len(rows) = 3
                 /\ \A i \in 1..3 : ~rows[i].rule_based_fraud_flag /\ ~rows[i].model_fraud_flag
                 /\ rows[1].fraud_score = Num(2, 1)
                 /\ rows[2].fraud_score = Num(6, 1)
                 /\ rows[3].fraud_score = Num(9, 1) ) =>
                  /\ n = 2
                  /\ fraud_table[1].id = 2 /\ fraud_table[1].fraud_score = Num(9, 1)
                  /\ fraud_table[2].id = 1 /\ fraud_table[2].fraud_score = Num(6, 1)

\* the three unflagged rows scoring 0.2, 0.6, 0.9 have been tabled
C11_Witness ==
    /\ pc = "fraud_table"
    /\ Len(df_scored.rows) = 3
    /\ \A i \in 1..3 : ~df_scored.rows[i].rule_based_fraud_flag /\ ~df_scored.rows[i].model_fraud_flag
    /\ df_scored.rows[1].fraud_score = Num(2, 1)
    /\ df_scored.rows[2].fraud_score = Num(6, 1)
    /\ df_scored.rows[3].fraud_score = Num(9, 1)
    /\ Len(fraud_table) = 2

\* a score as a number between 0 and 1
InUnitInterval(score) ==
    /\ score.k = "num"
    /\ score.n >= 0
    /\ score.n <= Pow10(score.e)

\* C12: in every scored table, with or without a model bundle, each score lies
\* in [0, 1]; with a bundle the score of a row is the probability the
\* classifier gives it, and its model flag is true exactly when that score is
\* above 0.6, so a score of exactly 0.6 is not flagged.
C12_ModelScore ==
    pc = "scored" =>
        /\ Len(df_scored.rows) = Len(df_feat.rows)
        /\ \A i \in 1..Len(df_scored.rows) :
              LET in == df_feat.rows[i]
                  out == df_scored.rows[i]
              IN  /\ InUnitInterval(out.fraud_score)
                  /\ model_bundle # None =>
                        LET clf == model_bundle.classifier
                            v == in[model_bundle.engineered_feature_names[clf.feature]]
                            above == ~v.null /\ v.num > clf.cut * v.den
                        IN  /\ out.fraud_score = (IF above THEN clf.high ELSE clf.low)
                            /\ out.model_fraud_flag <=>
                                  out.fraud_score.n * 10 > 6 * Pow10(out.fraud_score.e)
                            /\ out.fraud_score = Num(6, 1) => ~out.model_fraud_flag

\* a bundle scores one row exactly 0.6, not flagged, and another 0.9, flagged
C12_Witness ==
    /\ pc = "scored" /\ model_bundle # None
    /\ \E i, j \in 1..Len(df_scored.rows) :
          /\ df_scored.rows[i].fraud_score = Num(6, 1) /\ ~df_scored.rows[i].model_fraud_flag
          /\ df_scored.rows[j].fraud_score = Num(9, 1) /\ df_scored.rows[j].model_fraud_flag

\* C13: under a bundle naming a column the feature table lacks, or one holding
\* nulls, the scorer returns a table in which every row has a score and a
\* model flag, and the classifier saw 0.0 for the missing column and for each
\* null cell.
C13_StaleBundleZeroFill ==
    (pc = "scored" /\ model_bundle # None) =>
        /\ Len(df_scored.rows) = Len(df_feat.rows)
        /\ \A i \in 1..Len(df_scored.rows) :
              LET in == df_feat.rows[i]
                  out == df_scored.rows[i]
                  clf == model_bundle.classifier
                  name == model_bundle.engineered_feature_names[clf.feature]
                  missing == IF name \in DOMAIN in THEN in[name].null ELSE TRUE
              IN  /\ InUnitInterval(out.fraud_score)
                  /\ out.model_fraud_flag \in BOOLEAN
                  /\ missing => out.fraud_score = (IF 0 > clf.cut THEN clf.high ELSE clf.low)

\* a bundle splitting below zero on a column the table lacks scores a row high
C13_Witness ==
    /\ pc = "scored" /\ model_bundle # None
    /\ model_bundle.engineered_feature_names[model_bundle.classifier.feature] = "merchant_risk"
    /\ model_bundle.classifier.cut = -1
    /\ Len(df_scored.rows) >= 1
    /\ "merchant_risk" \notin DOMAIN df_feat.rows[1]
    /\ df_scored.rows[1].fraud_score = Num(9, 1) /\ df_scored.rows[1].model_fraud_flag

\* the groups of the scored table under one column
GroupsOf(col) == {df_scored.rows[i][col] : i \in 1..Len(df_scored.rows)}

MembersOf(col, key) == {i \in 1..Len(df_scored.rows) : df_scored.rows[i][col] = key}

\* tenths of the highest score of the scored table
TopTenths ==
    CHOOSE x \in {df_scored.rows[i].fraud_score.n : i \in 1..Len(df_scored.rows)} :
        \A i \in 1..Len(df_scored.rows) : df_scored.rows[i].fraud_score.n <= x

\* the mean over a group of score / highest score, as sum over count * highest
RiskOf(col, key) ==
    IF TopTenths = 0 THEN Frac(0, 1)
    ELSE Frac(SumOver([i \in MembersOf(col, key) |-> df_scored.rows[i].fraud_score.n],
                      MembersOf(col, key)),
              TopTenths * Cardinality(MembersOf(col, key)))

\* the mean velocity of a user
VelocityOf(user) ==
    Frac(SumOver([i \in MembersOf("user_id", user) |->
                     df_scored.rows[i].user_tx_velocity_per_day.num],
                 MembersOf("user_id", user)),
         Cardinality(MembersOf("user_id", user)))

\* the score a group would have as a cluster
ClusterScoreOf(kind, key) ==
    IF kind = "Category spike" THEN RiskOf("category", key)
    ELSE IF kind = "Geo hotspot" THEN RiskOf("country", key)
    ELSE LET top == CHOOSE u \in GroupsOf("user_id") :
                        \A w \in GroupsOf("user_id") : ~FracGreater(VelocityOf(w), VelocityOf(u))
             v == VelocityOf(key)
             t == VelocityOf(top)
         IN  IF t.num >= t.den THEN Frac(v.num * t.den, v.den * t.num) ELSE v

ClusterKinds == {"Category spike", "Geo hotspot", "Velocity burst"}

KindColumn(kind) ==
    IF kind = "Category spike" THEN "category"
    ELSE IF kind = "Geo hotspot" THEN "country" ELSE "user_id"

KindLimit(kind) ==
    IF kind = "Category spike" THEN 3 ELSE 2

SameFrac(a, b) == a.num * b.den = b.num * a.den

\* C14: the clusters of a scored table are at most 5, in descending order of
\* score, each score between 0 and 1 and that of its group; they hold at most
\* 3 categories, 2 countries and 2 users, and a group is left out only when
\* enough groups of its kind score at least as much, or when 5 clusters each
\* score at least as much.
C14_TopFiveClusters ==
    pc = "clusters" =>
        LET out == cluster_insights
            n == Len(out)
            ofKind(kind) == {p \in 1..n : out[p].name[1] = kind}
            Min(a, b) == IF a < b THEN a ELSE b
            merged(kind) ==
                IF Len(df_scored.rows) = 0 THEN 0
                ELSE Min(KindLimit(kind), Cardinality(GroupsOf(KindColumn(kind))))
        IN  /\ n <= 5
            /\ n = Min(5, merged("Category spike") + merged("Geo hotspot")
                            + merged("Velocity burst"))
            /\ \A p \in 1..n :
                  /\ out[p].score.num >= 0 /\ out[p].score.num <= out[p].score.den
                  /\ out[p].name[1] \in ClusterKinds
                  /\ out[p].name[2] \in GroupsOf(KindColumn(out[p].name[1]))
                  /\ SameFrac(out[p].score, ClusterScoreOf(out[p].name[1], out[p].name[2]))
                  /\ \A q \in 1..n :
                        p < q => /\ ~FracGreater(out[q].score, out[p].score)
                                 /\ out[p].name # out[q].name
            /\ \A kind \in ClusterKinds :
                  /\ Cardinality(ofKind(kind)) <= KindLimit(kind)
                  /\ \A key \in GroupsOf(KindColumn(kind)) :
                        (\A p \in ofKind(kind) : out[p].name[2] # key) =>
                            LET mine == ClusterScoreOf(kind, key)
                            IN  \/ Cardinality({g \in GroupsOf(KindColumn(kind)) \ {key} :
                                        ~FracGreater(mine, ClusterScoreOf(kind, g))})
                                      >= KindLimit(kind)
                                \/ /\ n = 5
                                   /\ \A p \in 1..n : ~FracGreater(mine, out[p].score)

\* four categories, three countries and three users merge into seven clusters,
\* of which five are kept
C14_Witness ==
    /\ pc = "clusters"
    /\ Cardinality(GroupsOf("category")) = 4
    /\ Cardinality(GroupsOf("country")) = 3
    /\ Cardinality(GroupsOf("user_id")) = 3
    /\ Len(cluster_insights) = 5
    /\ FracGreater(cluster_insights[1].score, cluster_insights[5].score)

---------------------------------------------------------------------------
(* Claims about the process.                                               *)

\* C15: once on_startup has run, no step of any request assigns the model
\* bundle, and every run of the stages that stores a scored table scored it
\* with that bundle (None when no model was loaded).
C15_BundleReadOnly ==
    [][/\ pc = "serving" => model_bundle' = model_bundle
       /\ (state' # state /\ ~state'.df_with_features.none) =>
             state'.df_with_features.value =
                 _score_transactions_with_model(
                     engineer_transaction_features(state'.raw_df.value), model_bundle)]_vars

\* with a bundle loaded, an upload has been scored and a question answered
C15_Witness ==
    /\ pc = "serving" /\ model_bundle # None
    /\ ~state.df_with_features.none
    /\ \E i \in 1..Len(state.df_with_features.value.rows) :
          state.df_with_features.value.rows[i].fraud_score = Num(6, 1)
    /\ resp # Unset /\ resp.handler = "ask_ai" /\ resp.status = 200

\* C16: an ask_ai request, answered or rejected, leaves every field of the
\* application state as it was: the scored table, the insights and the fraud
\* table with its scores and flags, the model bundle included.
C16_AskAiReadsOnly ==
    [][(resp' # Unset /\ resp'.handler = "ask_ai") =>
           (state' = state /\ model_bundle' = model_bundle)]_vars

\* a question was answered from a fraud table that holds a flagged row
C16_Witness ==
    /\ resp # Unset /\ resp.handler = "ask_ai" /\ resp.status = 200
    /\ Len(state.fraud_table.value) >= 1
    /\ state.fraud_table.value[1].rule_based_fraud_flag

---------------------------------------------------------------------------
(* Claims about the stages and their tables.                               *)

\* C17: no stage changes the table it is given: once a table exists, the call
\* of _infer_columns, engineer_transaction_features, compute_basic_insights,
\* _score_transactions_with_model, build_fraud_table or
\* build_cluster_insights on it leaves its columns, rows and cells as they
\* were.
C17_StagesLeaveInput ==
    [][/\ df_canon # Unset => df_canon' = df_canon
       /\ tx_in # Unset => tx_in' = tx_in
       /\ df_feat # Unset => df_feat' = df_feat
       /\ df_scored # Unset => df_scored' = df_scored]_vars

\* every stage has run on a table of two rows and the tables are as they were
C17_Witness ==
    /\ pc = "clusters"
    /\ insights # Unset
    /\ Len(tx_in.rows) = 2 /\ Len(df_feat.rows) = 2 /\ Len(df_scored.rows) = 2
    /\ "fraud_score" \notin DOMAIN df_feat.rows[1]
    /\ "risk_norm" \notin DOMAIN df_scored.rows[1]
    /\ Len(cluster_insights) >= 1

\* C18: on every output row of the feature engineer the rule flag is true
\* exactly when the amount is an anomaly, or the country changed, or the input
\* has a label column whose value on the row is a number of magnitude at least
\* one; without a label column it is the anomaly flag or the country change.
C18_RuleFlagDisjunction ==
    pc \in {"engineered", "scored"} =>
        \A i \in 1..Len(df_feat.rows) :
            LET r == df_feat.rows[i]
                labelled == /\ df_feat.has_label
                            /\ r.is_fraud.k = "num"
                            /\ Abs(r.is_fraud.n) >= Pow10(r.is_fraud.e)
            IN  /\ r.rule_based_fraud_flag <=>
                      (r.is_amount_anomaly \/ r.country_changed \/ labelled)
                /\ ~df_feat.has_label =>
                      (r.rule_based_fraud_flag <=> (r.is_amount_anomaly \/ r.country_changed))

\* a labelled table whose first row is flagged by its label alone and whose
\* second row, labelled 0, is not flagged
C18_Witness ==
    /\ pc = "engineered" /\ df_feat.has_label
    /\ Len(df_feat.rows) >= 2
    /\ df_feat.rows[1].is_fraud = Num(1, 0)
    /\ ~df_feat.rows[1].is_amount_anomaly /\ ~df_feat.rows[1].country_changed
    /\ df_feat.rows[1].rule_based_fraud_flag
    /\ df_feat.rows[2].is_fraud = Num(0, 0)
    /\ ~df_feat.rows[2].rule_based_fraud_flag

\* C19: every output row of the feature engineer whose velocity flag is true
\* has its rule flag true, the rule flag being the disjunction of all the
\* derived flags.
C19_VelocityImpliesRuleFlag ==
    pc \in {"engineered", "scored"} =>
        \A i \in 1..Len(df_feat.rows) :
            df_feat.rows[i].velocity_flag => df_feat.rows[i].rule_based_fraud_flag

\* six payments of one user on one day, after 46 days of one payment each by
\* another: the velocity flag is true and the rule flag false
C19_VelocityFlagAlone ==
    /\ pc = "engineered"
    /\ \E i \in 1..Len(df_feat.rows) :
          /\ df_feat.rows[i].velocity_flag
          /\ df_feat.rows[i].user_tx_velocity_per_day = Float(6)
          /\ ~df_feat.rows[i].is_amount_anomaly /\ ~df_feat.rows[i].country_changed
          /\ ~df_feat.rows[i].rule_based_fraud_flag

---------------------------------------------------------------------------
(* Claims about the choice among the tables parsed from one file.          *)

\* the score of a candidate: its non-null cells, 50 for each numeric column
\* and 25 for each column more than half of whose cells parse as a date; a
\* table without a row scores nothing
CandidateScore(f) ==
    IF f.n = 0 THEN 0
    ELSE Cardinality({<<c, r>> \in (1..Len(f.cols)) \X (1..f.n) : NotNa(f.cols[c].cells[r])})
         + 50 * Cardinality({c \in 1..Len(f.cols) :
                                \A r \in 1..f.n : f.cols[c].cells[r].k # "str"})
         + 25 * Cardinality({c \in 1..Len(f.cols) :
                                2 * Cardinality({r \in 1..f.n :
                                        NotNa(ToDatetimeCell(f.cols[c].cells[r]))}) > f.n})

\* C20: the table selected among the candidates parsed from one file has the
\* highest score, and no candidate before it has that score: of several
\* candidates with the highest score the first is selected.
C20_BestFrameFirstMaximum ==
    pc # "read" =>
        \E i \in 1..Len(frames) :
            /\ df_raw = frames[i]
            /\ \A j \in 1..Len(frames) :
                  /\ CandidateScore(frames[j]) <= CandidateScore(frames[i])
                  /\ j < i => CandidateScore(frames[j]) < CandidateScore(frames[i])

\* two different candidates of equal score 2, the first selected
C20_Witness ==
    /\ pc = "parsed"
    /\ Len(frames) = 2
    /\ frames[1] # frames[2]
    /\ CandidateScore(frames[1]) = 2 /\ CandidateScore(frames[2]) = 2
    /\ df_raw = frames[1]

---------------------------------------------------------------------------
(* Claims about the resolution order of the canonical columns.             *)

\* the table column inference starts from: trimmed, its labels normalized
Inferred == _normalize_columns(Trimmed(df_raw))
HasOne(f, name) == HasCol(f, name) /\ ~IsDup(f, name)

\* C21: the canonical amount is resolved by exact alias match before the
\* credit - debit derivation: a table holding a column named "amount" next to
\* the columns "debit" and "credit" takes its canonical amount from "amount".
C21_AmountAliasBeforeCreditDebit ==
    (/\ Returned
     /\ HasOne(Inferred, "amount") /\ HasOne(Inferred, "debit") /\ HasOne(Inferred, "credit")) =>
        Cells(df_canon, "amount")
            = FillNa(_coerce_numeric(Cells(Inferred, "amount")), Num(0, 0))

\* a table with the columns amount, debit and credit, every cell a number, is
\* returned with credit - debit as its amount and not the "amount" column
C21_CreditDebitOverwritesAmount ==
    /\ Returned
    /\ HasOne(Inferred, "amount") /\ HasOne(Inferred, "debit") /\ HasOne(Inferred, "credit")
    /\ df_canon.n = 2
    /\ \A r \in 1..2 : Cells(Inferred, "amount")[r] = Num(r * r, 0)
    /\ Cells(df_canon, "amount") = CreditMinusDebit(Inferred)
    /\ Cells(df_canon, "amount") = <<Num(0, 0), Num(0, 0)>>

BeforeCategory == InferAmount(InferTimestamp(Inferred))
TextColumns == IdxOfDtype(BeforeCategory, "object")
CategorySource == FewestValues(BeforeCategory, TextColumns)
OtherText == IF TextColumns = {} THEN {} ELSE TextColumns \ {CategorySource}

TimestampUnresolved ==
    LET g == InferTimestamp(Inferred)
    IN  /\ ~g.err
        /\ \/ ~HasCol(g, "timestamp")
           \/ \A r \in 1..g.n : IsNull(Cells(g, "timestamp")[r])

\* C24: when no timestamp column can be resolved, row i of the returned table
\* has the timestamp base + i days for one common base (i counted from 0), so
\* the timestamps are strictly increasing in row order, pairwise distinct,
\* and the timestamp filter of the feature engineer keeps every row.
C24_DefaultTimestamps ==
    (Returned /\ TimestampUnresolved) =>
        LET ts == Cells(df_canon, "timestamp")
        IN  /\ \E base \in Todays : \A i \in 1..df_canon.n : ts[i] = PlusDays(base, i - 1)
            /\ \A i, j \in 1..df_canon.n : i < j => TsLess(ts[i], ts[j])
            /\ \A i, j \in 1..df_canon.n : i # j => ts[i] # ts[j]
            /\ \A i \in 1..df_canon.n : HasTimestamp([timestamp |-> ts[i]])
            /\ Len(DropNaT([i \in 1..df_canon.n |-> [timestamp |-> ts[i]]])) = df_canon.n

\* a two-row table whose "Date" column holds no date: consecutive days
C24_Witness ==
    /\ Returned /\ TimestampUnresolved
    /\ HasOne(Inferred, "date")
    /\ df_canon.n = 2
    /\ Cells(df_canon, "timestamp")[2] = PlusDays(Cells(df_canon, "timestamp")[1], 1)

---------------------------------------------------------------------------
(* Claims about the per-row features.                                      *)

\* C25: country_changed is true on a row exactly when the same user has an
\* immediately preceding transaction in (user_id, timestamp) order whose
\* country is not null and differs from the row's own; it is false on each
\* user's first transaction and whenever the country equals the previous one.
C25_CountryChanged ==
    pc = "engineered" =>
        LET rows == df_feat.rows
        IN  /\ \A i \in 1..Len(rows) : \A j \in 1..Len(rows) : i < j => ~KeyLess(rows[j], rows[i])
            /\ \A i \in 1..Len(rows) :
                  LET first == \A j \in 1..(i - 1) : rows[j].user_id # rows[i].user_id
                  IN  /\ first => ~rows[i].country_changed
                      /\ ~first =>
                            (rows[i].country_changed <=>
                                /\ rows[i - 1].user_id = rows[i].user_id
                                /\ NotNa(rows[i - 1].country)
                                /\ rows[i - 1].country # rows[i].country)
                      /\ (~first /\ rows[i - 1].country = rows[i].country)
                            => ~rows[i].country_changed

\* user 1 moves from IN to US, then user 2 pays in IN: true on the second row
\* only, although the third row's country differs from the one before it
C25_Witness ==
    /\ pc = "engineered"
    /\ Len(df_feat.rows) = 3
    /\ df_feat.rows[1].user_id = 1 /\ df_feat.rows[2].user_id = 1 /\ df_feat.rows[3].user_id = 2
    /\ df_feat.rows[1].country = Str(<<"IN">>) /\ df_feat.rows[2].country = Str(<<"US">>)
    /\ df_feat.rows[3].country = Str(<<"IN">>)
    /\ ~df_feat.rows[1].country_changed
    /\ df_feat.rows[2].country_changed
    /\ ~df_feat.rows[3].country_changed

\* a null country followed by a country: no change is reported
C25_NullPreviousCountry ==
    /\ pc = "engineered"
    /\ Len(df_feat.rows) = 2
    /\ IsNull(df_feat.rows[1].country) /\ NotNa(df_feat.rows[2].country)
    /\ ~df_feat.rows[2].country_changed

\* the rows of the feature table that open a (user, date) group, in row order,
\* and the transaction count of each such group
SameUserDay(r1, r2) == r1.user_id = r2.user_id /\ TxDate(r1) = TxDate(r2)
GroupSize(rows, i) == Cardinality({j \in 1..Len(rows) : SameUserDay(rows[j], rows[i])})
GroupOpeners(rows) ==
    SortedSeq({i \in 1..Len(rows) : \A j \in 1..(i - 1) : ~SameUserDay(rows[j], rows[i])})
CountPerGroup(rows) ==
    LET open == GroupOpeners(rows) IN [k \in 1..Len(open) |-> GroupSize(rows, open[k])]
\* max(5, P90) in tenths, P90 taken over the groups, one count for each
GroupThresholdTenths(rows) ==
    LET q == QuantileTenths(CountPerGroup(rows))
    IN  IF ~q.null /\ q.num > 10 * velocity_floor THEN q.num ELSE 10 * velocity_floor

\* C26: user_tx_velocity_per_day of a row is the number of transactions of the
\* same user on the same calendar date, and velocity_flag is true exactly when
\* that count exceeds max(5, P90), P90 being the 90th percentile of the counts
\* taken once per (user, date) group of the table.
C26_VelocityFlagPerGroupQuantile ==
    pc = "engineered" =>
        LET rows == df_feat.rows
        IN  \A i \in 1..Len(rows) :
                /\ rows[i].user_tx_velocity_per_day = Float(GroupSize(rows, i))
                /\ rows[i].velocity_flag <=> 10 * GroupSize(rows, i) > GroupThresholdTenths(rows)

\* user 1 pays once a day on 10 days, user 2 six times on one day: the 11
\* groups have the counts 1 (ten times) and 6, their P90 is 1 and 6 exceeds
\* max(5, 1), yet no row of user 2 is flagged
C26_BurstNotFlagged ==
    /\ pc = "engineered"
    /\ tx_in = VelocityTable(10, 6)
    /\ Len(CountPerGroup(df_feat.rows)) = 11
    /\ GroupThresholdTenths(df_feat.rows) = 50
    /\ \A i \in 1..Len(df_feat.rows) :
          df_feat.rows[i].user_id = 2 =>
              /\ df_feat.rows[i].user_tx_velocity_per_day = Float(6)
              /\ ~df_feat.rows[i].velocity_flag

---------------------------------------------------------------------------
(* Claims about the velocity clusters.                                     *)

\* the highest user_tx_velocity_per_day of any row of the scored table
TableMaxVelocity ==
    CHOOSE x \in {df_scored.rows[i].user_tx_velocity_per_day.num : i \in 1..Len(df_scored.rows)} :
        \A i \in 1..Len(df_scored.rows) : df_scored.rows[i].user_tx_velocity_per_day.num <= x

\* a user's mean velocity over the highest velocity of the table, at most 1.0
VelocityOverTableMax(user) ==
    LET v == VelocityOf(user)
        scaled == Frac(v.num, v.den * TableMaxVelocity)
    IN  IF scaled.num > scaled.den THEN Frac(1, 1) ELSE scaled

\* C27: each velocity cluster is one of the 2 users of highest mean
\* user_tx_velocity_per_day, and its score is that user's mean velocity
\* divided by the maximum velocity observed in the table, capped at 1.0.
C27_VelocityClusterScore ==
    pc = "clusters" =>
        \A p \in 1..Len(cluster_insights) :
            cluster_insights[p].name[1] = "Velocity burst" =>
                LET user == cluster_insights[p].name[2]
                IN  /\ user \in GroupsOf("user_id")
                    /\ Cardinality({w \in GroupsOf("user_id") :
                                       FracGreater(VelocityOf(w), VelocityOf(user))}) < 2
                    /\ SameFrac(cluster_insights[p].score, VelocityOverTableMax(user))

\* user 1 has the velocities 3, 1, 1 and user 2 the velocity 1: the highest of
\* the table is 3 and the mean of user 1 is 5/3, yet its cluster scores 1.0
C27_ScoredAgainstHighestMean ==
    /\ pc = "clusters"
    /\ Len(df_scored.rows) = 4
    /\ TableMaxVelocity = 3
    /\ SameFrac(VelocityOf(1), Frac(5, 3))
    /\ SameFrac(VelocityOf(2), Frac(1, 1))
    /\ \E p \in 1..Len(cluster_insights) :
          /\ cluster_insights[p].name = <<"Velocity burst", 1>>
          /\ SameFrac(cluster_insights[p].score, Frac(1, 1))
          /\ ~SameFrac(cluster_insights[p].score, VelocityOverTableMax(1))

---------------------------------------------------------------------------
(* Claims about the amount anomaly.                                        *)

\* C28: the trailing window of at most 10 amounts holds the current one, so
\* |amount - rolling mean| is at most 3 times the rolling sample deviation,
\* never above 3 x (deviation + 1e-6): is_amount_anomaly is false on every
\* row engineer_transaction_features returns.
C28_NoAmountAnomaly ==
    pc = "engineered" =>
        \A i \in 1..Len(df_feat.rows) :
            LET z == df_feat.rows[i].zscore_amount
            IN  /\ ~df_feat.rows[i].is_amount_anomaly
                /\ ~z.null => z.d * z.d * z.w <= zscore_limit * zscore_limit * z.v * z.m * z.m

\* nine payments of 100 and a tenth of 7: the tenth row's z-score is
\* -sqrt(8.1), the largest a window of 10 allows, and it is no anomaly
C28_Witness ==
    /\ pc = "engineered"
    /\ Len(df_feat.rows) = 10
    /\ \A i \in 1..9 : df_feat.rows[i].amount = 100
    /\ df_feat.rows[10].amount = 7
    /\ LET z == df_feat.rows[10].zscore_amount
       IN  /\ ~z.null /\ z.d < 0
           /\ 10 * z.d * z.d * z.w = 81 * z.v * z.m * z.m
    /\ ~df_feat.rows[10].is_amount_anomaly

---------------------------------------------------------------------------
(* Claims about the snapshot the process keeps.                            *)

SnapshotFields == {"raw_df", "df_with_features", "insights", "fraud_table", "cluster_insights"}
Snapshot(st) == [f \in SnapshotFields |-> st[f]]
NoSnapshot(st) == \A f \in SnapshotFields : st[f].none

\* the five fields one run of the stages on the table of one file leaves
StagesOn(contents, bundle) ==
    LET features == engineer_transaction_features(contents.table)
        scored == _score_transactions_with_model(features, bundle)
    IN  [raw_df |-> Some(contents.table),
         df_with_features |-> Some(scored),
         insights |-> Some(compute_basic_insights(features)),
         fraud_table |-> Some(build_fraud_table(scored)),
         cluster_insights |-> Some(build_cluster_insights(scored))]

Served(contents) == contents.readable /\ contents.raises = NoStage

\* the files a request has carried, or an earlier process has left on disk
KnownFiles == {u.contents : u \in Uploads} \cup {HomeFile}

\* those fields for every file the stages run through, under every bundle
SnapshotTable ==
    [c \in {k \in KnownFiles : Served(k)}, b \in Bundles |-> StagesOn(c, b)]
SnapshotOf(contents, bundle) == SnapshotTable[contents, bundle]

\* C29: under every interleaving of upload_transactions and dashboard_data
\* handlers at their await points, the fields raw_df, df_with_features,
\* insights, fraud_table and cluster_insights are all unset or all derived
\* from the content of one and the same upload, never a mix of two; a step
\* changes them only to the results of the upload whose handler ends in that
\* step, or, while they are unset, to the results of a stored upload.
C29_SnapshotOfOneUpload ==
    [][/\ \/ NoSnapshot(state')
          \/ \E c \in KnownFiles :
                Served(c) /\ Snapshot(state') = SnapshotOf(c, model_bundle')
       /\ Snapshot(state') # Snapshot(state) =>
             \/ \E u \in req \ req' :
                   Served(u.contents) /\ Snapshot(state') = SnapshotOf(u.contents, model_bundle)
             \/ /\ NoSnapshot(state) /\ req' = req
                /\ \E x \in DOMAIN disk :
                      /\ ~disk[x].none /\ Served(disk[x].value)
                      /\ Snapshot(state') = SnapshotOf(disk[x].value, model_bundle)]_vars

\* a TravelFile upload ended, a HomeFile upload ended after it and left its
\* snapshot, while a third upload waits for its bytes
C29_Witness ==
    /\ pc = "serving"
    /\ \E u \in req : u.contents = TravelFile
    /\ resp # Unset /\ resp.handler = "upload" /\ resp.status = 200
    /\ disk[".xlsx"] = Some(TravelFile)
    /\ state.last_upload_path = Some(".csv")
    /\ Snapshot(state) = SnapshotOf(HomeFile, model_bundle)

\* C30: an upload that fails in ingestion is answered with an error carrying
\* the cause and changes no field of the application state; an upload on
\* whose table feature engineering, scoring or aggregation raises changes no
\* field either, so that dashboard_data and ask_ai go on serving the snapshot
\* of the last upload that succeeded.
C30_FailedUploadKeepsState ==
    [][\A u \in req \ req' :
          /\ ~u.contents.readable =>
                /\ state' = state
                /\ resp' = [handler |-> "upload", status |-> 400, body |-> u.contents.cause]
          /\ (u.contents.readable /\ u.contents.raises \in Stages) =>
                /\ state' = state
                /\ resp'.handler = "upload" /\ resp'.status >= 400
          /\ (~Served(u.contents) /\ ~NoSnapshot(state)) =>
                /\ Rehydrated' = Some(state)
                /\ state'.insights = state.insights
                /\ state'.fraud_table = state.fraud_table]_vars

\* a HomeFile upload succeeded, then an upload of the same suffix was refused
\* by a stage: its file replaced HomeFile on disk, the snapshot is HomeFile's
C30_Witness ==
    /\ pc = "serving"
    /\ resp # Unset /\ resp.handler = "upload" /\ resp.status = 500
    /\ state.last_upload_path = Some(".csv")
    /\ ~disk[".csv"].none /\ disk[".csv"].value.raises \in Stages
    /\ Snapshot(state) = SnapshotOf(HomeFile, model_bundle)

\* an unreadable file was answered with its cause while a snapshot is kept
C30_LoadErrorReported ==
    /\ pc = "serving"
    /\ resp # Unset /\ resp.handler = "upload" /\ resp.status = 400
    /\ resp.body = BadFile.cause
    /\ disk[".csv"] = Some(BadFile)
    /\ Snapshot(state) = SnapshotOf(TravelFile, model_bundle)

====
